---- MODULE Spec2Model ----
(***************************************************************************)
(* A model of the Haefele Connect Mesh client: the retry decorator         *)
(* (utils/retry.py), the per-key rate limiter (utils/rate_limit.py), the   *)
(* per-device update coordinator (coordinator.py) with the callers of      *)
(* get_device_status (__init__.py, switch.py), the operations and scale    *)
(* conversions of the API client (api/client.py), and the Network, Group   *)
(* and Device models (models/network.py, models/group.py,                  *)
(* models/device.py).                                                      *)
(*                                                                         *)
(* The specifications share the module; each one moves its own group of    *)
(* variables and leaves the others at their initial values:                *)
(*   SpecRetry  one request through retry_with_backoff                     *)
(*   SpecRate   concurrent callers of RateLimiter.acquire                  *)
(*   SpecStatus concurrent callers of the rate-limited get_device_status   *)
(*   SpecCoord  one device's coordinator, its subtasks and the entity      *)
(*   SpecCycle  the coordinator's poll cycle alone, with fairness          *)
(*   SpecClient one call of a client operation at a time                   *)
(*   SpecConv   the scale conversions and their round trips                *)
(*   SpecNetwork  one Network, parsed and asked for its devices            *)
(*   SpecGroup  one Group and its capability properties                    *)
(*   SpecRetryFair  the client's requests through the decorator, fair      *)
(*   SpecStatusFair the rate-limited callers with cancellation, fair       *)
(*   SpecSubtask    the poll cycle and its subtasks, fair                  *)
(*   SpecDevice     one Device and its capability flags                    *)
(*   SpecListing    one call of get_devices or get_devices_for_network     *)
(***************************************************************************)
EXTENDS Integers, Sequences, FiniteSets, TLC

VARIABLES
    \* ---- retry_with_backoff.wrapper (utils/retry.py) ----
    max_attempts,     \* the decorator's max_attempts argument
    retry_cfg,        \* base_delay, max_delay, jitter_range (milliseconds)
    attempt,          \* the loop variable of `for attempt in range(max_attempts)`
    last_exception,   \* the wrapper's last_exception (NoError = None)
    retry_pc,         \* "call" | "sleep" | "returned" | "raised"
    retry_out,        \* what the wrapper returned or raised
    calls,            \* history: invocations of the wrapped function
    sleeps,           \* history: asyncio.sleep calls made by the wrapper
    total_delay,      \* the argument of the latest asyncio.sleep
    first_outcome,    \* history: outcome of the first invocation
    last_outcome,     \* history: outcome of the latest invocation
    retryable_fails,  \* history: invocations that raised a retryable error
    \* ---- RateLimiter and rate_limit.wrapper (utils/rate_limit.py) ----
    now,              \* time.monotonic(), in ticks of half a second
    last_call_time,   \* RateLimiter._last_call_time: key -> timestamp
    locks,            \* RateLimiter._locks: key -> asyncio.Lock
    rl,               \* the callers: where each is in wrapper/acquire, and its arguments
    last_device,      \* history: per key, the device id of the call that set the timestamp
    last_record,      \* history: the latest assignment to _last_call_time
    last_cancel,      \* history: where and on which key a caller was cancelled last
    \* ---- HafeleUpdateCoordinator and the callers of get_device_status ----
    wall,             \* datetime.now(), in minutes
    coord_pc,         \* the poll cycle: "idle" | "acquire" | "fetching"
    device,           \* coordinator.device: [obj, name]; obj is 0 for the Device
                      \* object of the setup and 1 for one built by a later detail
                      \* fetch, and the model alternates between two names
    last_updated,     \* self.device.last_updated (Device._last_updated)
    setup_last_updated, \* last_updated of the Device object of the setup, which the
                      \* entities hold as self._device
    last_check,       \* _last_device_check / _last_new_devices_check, per subtask kind
    check_task,       \* _device_check_task / _new_devices_check_task is not None
    running,          \* the subtasks of each kind that are in flight
    data,             \* coordinator.data: the keys of its "state" mapping
    last_update_success, \* DataUpdateCoordinator.last_update_success
    setup_pc,         \* async_setup_entry, for the device
    switch_pc,        \* HaefeleConnectMeshSwitch.async_added_to_hass
    is_socket,        \* device.is_socket (else the device is a light)
    cycle,            \* history: the poll cycle that ended last
    sub_errors,       \* history: what became of the errors raised in subtasks
    update_interval,  \* DataUpdateCoordinator.update_interval, in seconds
    unloaded,         \* async_unload_entry has run for the config entry
    added_entities,   \* the unique ids discovery passed to async_add_<platform>_entities
    new_seen,         \* history: a discovery listing held an id unknown to the setup
    \* ---- HafeleClient: one operation at a time on one Device ----
    cl_pc,            \* "idle" | "request" | "body" | "done"
    cl_op,            \* the operation called, the device's type and the arguments
    cl_attempt,       \* the attempt of retry_with_backoff around _request
    http_calls,       \* the HTTP requests the operation has dispatched
    cl_body,          \* the body of the 2xx response, "none" before there is one
    cl_result,        \* what the operation returned or raised
    cl_now,           \* datetime.now(UTC); advances with every call
    dev_last_updated, \* the target Device's _last_updated
    dev_before,       \* history: dev_last_updated when the operation was called
    \* ---- the scale conversions of HafeleClient and the light's brightness ----
    conv_pc,          \* "idle" | "called" | "inverted"
    conv_fn,          \* the conversion called last
    conv_in,          \* its argument, a quotient of two integers
    conv_power,       \* the power entry of the snapshot the light entity reads
    conv_out,         \* what it returned or raised
    conv_from,        \* history: the call whose result is conv_in, if any
    \* ---- one Network (models/network.py) ----
    net_pc,           \* "unparsed" | "parsed" | "failed"
    net_data,         \* the payload Network.from_dict was called with
    net_error,        \* the class of the exception from_dict raised, or "none"
    net_mesh_config,  \* Network._mesh_config: "None" | "MeshConfiguration"
    net_cached,       \* Network._devices is not None
    net_devices,      \* Network._devices when it is a list
    net_last_updated, \* Network._last_updated
    net_now,          \* datetime.now(UTC); advances with every get_devices call
    net_supplied,     \* history: the argument of the latest get_devices call
    net_first,        \* history: the argument of the first get_devices call
    net_returned,     \* history: what the latest get_devices call returned
    net_before,       \* history: _devices and _last_updated before the latest call
    \* ---- one Group (models/group.py) ----
    grp_pc,           \* "none" | "built" | "read"
    grp_devices,      \* Group._devices: the types of the member devices, in order
    grp_pred,         \* the capability property read last
    grp_result,       \* what it returned or raised
    \* ---- one Device (models/device.py) ----
    dv_pc,            \* "none" | "built" | "invalid"
    dv_type,          \* Device._type: a member of DeviceType
    dv_built,         \* history: the capability flags right after construction
    dv_read,          \* the capability flags as read last
    dv_stamp,         \* Device._last_updated, counted in update_timestamp calls
    \* ---- HafeleClient.get_devices / get_devices_for_network ----
    dl_pc,            \* "idle" | "done"
    dl_call,          \* the operation called and its network_id argument
    dl_response,      \* the body of the /devices response
    dl_result         \* the devices returned, or the error raised

retry_vars == <<max_attempts, retry_cfg, attempt, last_exception, retry_pc,
                retry_out, calls, sleeps, total_delay, first_outcome,
                last_outcome, retryable_fails>>

rate_vars == <<now, last_call_time, locks, rl, last_device, last_record,
               last_cancel>>

\* the coordinator state that only the unload and the discovery subtask touch
coord_rest == <<update_interval, unloaded, added_entities, new_seen>>

coord_vars == <<wall, coord_pc, device, last_updated, setup_last_updated,
                last_check, check_task,
                running, data, last_update_success, setup_pc, switch_pc,
                is_socket, cycle, sub_errors, coord_rest>>

client_vars == <<cl_pc, cl_op, cl_attempt, http_calls, cl_body, cl_result,
                 cl_now, dev_last_updated, dev_before>>

conv_vars == <<conv_pc, conv_fn, conv_in, conv_power, conv_out, conv_from>>

net_vars == <<net_pc, net_data, net_error, net_mesh_config, net_cached,
              net_devices, net_last_updated, net_now, net_supplied, net_first,
              net_returned, net_before>>

grp_vars == <<grp_pc, grp_devices, grp_pred, grp_result>>

dev_vars == <<dv_pc, dv_type, dv_built, dv_read, dv_stamp, dl_pc, dl_call,
              dl_response, dl_result>>

vars == <<retry_vars, rate_vars, coord_vars, client_vars, conv_vars, net_vars,
          grp_vars, dev_vars>>

\* what the actions of one component leave alone
not_retry_vars == <<rate_vars, coord_vars, client_vars, conv_vars, net_vars,
        grp_vars, dev_vars>>
not_rate_vars == <<retry_vars, coord_vars, client_vars, conv_vars, net_vars,
        grp_vars, dev_vars>>
not_coord_vars == <<retry_vars, rate_vars, client_vars, conv_vars, net_vars,
        grp_vars, dev_vars>>
not_client_vars == <<retry_vars, rate_vars, coord_vars, conv_vars, net_vars,
        grp_vars, dev_vars>>
not_conv_vars == <<retry_vars, rate_vars, coord_vars, client_vars, net_vars,
        grp_vars, dev_vars>>
not_net_vars == <<retry_vars, rate_vars, coord_vars, client_vars, conv_vars,
        grp_vars, dev_vars>>
not_grp_vars == <<retry_vars, rate_vars, coord_vars, client_vars, conv_vars,
        net_vars, dev_vars>>
not_dev_vars == <<retry_vars, rate_vars, coord_vars, client_vars, conv_vars,
        net_vars, grp_vars>>

----------------------------------------------------------------------------
(* Bounds of the model *)

\* max_attempts ranges over 0..MaxAttemptsBound
MaxAttemptsBound == 5

\* the number of concurrent callers of the rate limiter
NumCallers == 2

\* the monotonic clock stops at MaxTime ticks
MaxTime == 3

\* the client is called MaxOps times
MaxOps == 2

\* the wall clock stops at MaxWall minutes
MaxWall == 2

\* the conversions are called with every value of their domain and with the
\* Margin values on either side of it
Margin == 2

\* the API's lightness, a real in 0..1, is drawn in steps of 1/ApiSteps
ApiSteps == 20

\* Network.get_devices is called MaxGetDevices times, with lists of up to
\* MaxListLen devices
MaxGetDevices == 2
MaxListLen == 2

----------------------------------------------------------------------------
(* Exceptions (exceptions.py) and the outcomes of one call *)

\* status_code: Optional[int] = None; None and 0 are both falsy in the
\* wrapper's `e.status_code` test, and both are written 0 here
NoStatus == 0

\* RETRYABLE_STATUS_CODES
RETRYABLE_STATUS_CODES == {408, 429, 500, 502, 503, 504}

\* the statuses the model draws HTTP failures from
StatusCodes == {NoStatus, 401, 404} \cup RETRYABLE_STATUS_CODES

\* error_code values: the "TIMEOUT" code _request sets, any other text
\* (an HTTP reason phrase), or none
ErrorCodes == {"TIMEOUT", "OTHER", "NONE"}

\* HafeleAPIError(message, status_code, error_code)
HafeleAPIError(status, code) ==
    [kind |-> "error", cls |-> "HafeleAPIError", status |-> status, code |-> code,
     value |-> "none"]

\* ValidationError carries neither status_code nor error_code
ValidationError ==
    [kind |-> "error", cls |-> "ValidationError", status |-> NoStatus,
     code |-> "NONE", value |-> "none"]

\* any exception that is neither HafeleAPIError nor ValidationError
OtherException ==
    [kind |-> "error", cls |-> "Exception", status |-> NoStatus,
     code |-> "NONE", value |-> "none"]

\* `raise last_exception` with last_exception = None raises a TypeError
RaiseNoneTypeError ==
    [kind |-> "error", cls |-> "TypeError", status |-> NoStatus,
     code |-> "NONE", value |-> "none"]

\* a normal return of the wrapped function
Returned(v) ==
    [kind |-> "ok", cls |-> "none", status |-> NoStatus, code |-> "NONE",
     value |-> v]

\* last_exception = None, and "nothing returned or raised yet"
NoError ==
    [kind |-> "none", cls |-> "none", status |-> NoStatus, code |-> "NONE",
     value |-> "none"]

ReturnValues == {"r1", "r2"}

Errors ==
    {HafeleAPIError(s, c) : s \in StatusCodes, c \in ErrorCodes}
        \cup {ValidationError, OtherException}

Outcomes == Errors \cup {Returned(v) : v \in ReturnValues}

----------------------------------------------------------------------------
(* retry_with_backoff (utils/retry.py) *)

\* the decorator's defaults: base_delay=1.0, max_delay=16.0, jitter_range=0.5
DefaultRetryCfg == [base_delay |-> 1000, max_delay |-> 16000, jitter_range |-> 500]

\* HafeleClient._request: base_delay=0.5, max_delay=4.0, jitter_range=0.5
ClientRetryCfg == [base_delay |-> 500, max_delay |-> 4000, jitter_range |-> 500]

Min(a, b) == IF a < b THEN a ELSE b
Max(a, b) == IF a > b THEN a ELSE b

RECURSIVE Pow2(_)
Pow2(n) == IF n <= 0 THEN 1 ELSE 2 * Pow2(n - 1)

\* base_delay * (2 ** (attempt - 1)), in milliseconds: 2 ** -1 is 0.5
Backoff(base, att) == IF att = 0 THEN base \div 2 ELSE base * Pow2(att - 1)

\* the except clause: `except (HafeleAPIError, ValidationError) as e`
Caught(e) == e.cls \in {"HafeleAPIError", "ValidationError"}

\* a mutant of ShouldRetry: 503 is missing from the retryable statuses
ShouldRetryNo503(e) ==
    IF e.cls = "HafeleAPIError" /\ e.code = "TIMEOUT" THEN TRUE
    ELSE IF e.cls = "HafeleAPIError" /\ e.status # NoStatus
         THEN e.status \in (RETRYABLE_STATUS_CODES \ {503})
    ELSE FALSE

\* a mutant of ShouldRetry: every HTTP status of 400 and above is retried
ShouldRetryAnyStatus(e) ==
    IF e.cls = "HafeleAPIError" /\ e.code = "TIMEOUT" THEN TRUE
    ELSE IF e.cls = "HafeleAPIError" /\ e.status # NoStatus
         THEN e.status >= 400
    ELSE FALSE

\* a mutant of ShouldRetry: a HafeleAPIError without a status is retried too
ShouldRetryNoStatus(e) ==
    IF e.cls = "HafeleAPIError" /\ e.code = "TIMEOUT" THEN TRUE
    ELSE IF e.cls = "HafeleAPIError"
         THEN e.status = NoStatus \/ e.status \in RETRYABLE_STATUS_CODES
    ELSE FALSE

\* should_retry, lines 62-72
ShouldRetry(e) ==
    IF e.cls = "HafeleAPIError" /\ e.code = "TIMEOUT" THEN TRUE
    ELSE IF e.cls = "HafeleAPIError" /\ e.status # NoStatus
         THEN e.status \in RETRYABLE_STATUS_CODES
    ELSE IF e.cls = "ValidationError" THEN FALSE
    ELSE FALSE

\* a mutant of LastAttempt: the test for the last attempt is missing
LastAttemptNever(att, max) == FALSE

\* a mutant of LastAttempt: the loop gives up one attempt early
LastAttemptEarly(att, max) == att >= max - 2

\* `if attempt == max_attempts - 1`
LastAttempt(att, max) == att = max - 1

\* random.uniform(-jitter_range, jitter_range), sampled at its ends and middle
Jitters(cfg) == {0 - cfg.jitter_range, 0, cfg.jitter_range}

\* total_delay = max(min(base_delay * 2 ** (attempt - 1), max_delay) + jitter, 0.1)
TotalDelay(cfg, att, jitter) ==
    Max(Min(Backoff(cfg.base_delay, att), cfg.max_delay) + jitter, 100)

\* what the claims call a retryable error: a timeout, or a retryable status
IsRetryableError(o) ==
    /\ o.kind = "error"
    /\ o.cls = "HafeleAPIError"
    /\ (o.code = "TIMEOUT" \/ o.status \in RETRYABLE_STATUS_CODES)

\* the wrapper is entered: max_attempts and the delays are the decorator's
\* arguments
RetryStart(max, cfg) ==
    /\ max_attempts = max
    /\ retry_cfg = cfg
    /\ attempt = 0
    /\ last_exception = NoError
    /\ retry_pc = "call"
    /\ retry_out = NoError
    /\ calls = 0
    /\ sleeps = 0
    /\ total_delay = 0
    /\ first_outcome = NoError
    /\ last_outcome = NoError
    /\ retryable_fails = 0

\* the history variables, updated at every invocation of the wrapped function
RecordOutcome(o) ==
    /\ calls' = calls + 1
    /\ first_outcome' = IF calls = 0 THEN o ELSE first_outcome
    /\ last_outcome' = o
    /\ retryable_fails' = retryable_fails + (IF IsRetryableError(o) THEN 1 ELSE 0)

\* one pass of the loop body: `return await func(...)` and its except clause
RetryAttempt ==
    /\ retry_pc = "call"
    /\ attempt < max_attempts
    /\ \E o \in Outcomes :
        /\ RecordOutcome(o)
        /\ IF o.kind = "ok"
           THEN /\ retry_pc' = "returned"
                /\ retry_out' = o
                /\ UNCHANGED <<last_exception, sleeps, total_delay>>
           ELSE IF ~Caught(o)
           THEN /\ retry_pc' = "raised"
                /\ retry_out' = o
                /\ UNCHANGED <<last_exception, sleeps, total_delay>>
           ELSE /\ last_exception' = o
                /\ IF ~ShouldRetry(o) \/ LastAttempt(attempt, max_attempts)
                   THEN /\ retry_pc' = "raised"
                        /\ retry_out' = o
                        /\ UNCHANGED <<sleeps, total_delay>>
                   ELSE /\ retry_pc' = "sleep"
                        /\ \E j \in Jitters(retry_cfg) :
                               total_delay' = TotalDelay(retry_cfg, attempt, j)
                        /\ sleeps' = sleeps + 1
                        /\ UNCHANGED retry_out
    /\ UNCHANGED <<max_attempts, retry_cfg, attempt>>
    /\ UNCHANGED not_retry_vars

\* asyncio.sleep(total_delay) returns and the loop takes its next attempt
RetrySleepDone ==
    /\ retry_pc = "sleep"
    /\ retry_pc' = "call"
    /\ attempt' = attempt + 1
    /\ UNCHANGED <<max_attempts, retry_cfg, last_exception, retry_out, calls,
                   sleeps, total_delay, first_outcome, last_outcome,
                   retryable_fails>>
    /\ UNCHANGED not_retry_vars

\* `raise last_exception` after the loop: reached only when the loop body never
\* ran (max_attempts = 0), where last_exception is None
RetryLoopExit ==
    /\ retry_pc = "call"
    /\ attempt >= max_attempts
    /\ retry_pc' = "raised"
    /\ retry_out' = IF last_exception = NoError THEN RaiseNoneTypeError
                    ELSE last_exception
    /\ UNCHANGED <<max_attempts, retry_cfg, attempt, last_exception, calls,
                   sleeps, total_delay, first_outcome, last_outcome,
                   retryable_fails>>
    /\ UNCHANGED not_retry_vars

RetryNext == RetryAttempt \/ RetrySleepDone \/ RetryLoopExit

----------------------------------------------------------------------------
(* RateLimiter and the rate_limit decorator (utils/rate_limit.py) *)

Callers == 1..NumCallers

\* HafeleClient instances and device ids the decorated method is called with
Clients == {"client1", "client2"}
Devices == {"dev1", "dev2"}

\* @rate_limit(min_interval=1.0) on get_device_status: two ticks
StatusMinInterval == 2

\* the min_interval arguments of direct acquire calls
Intervals == {1, 3}

\* a mutant of RateLimitKey: the device id is part of the key
RateLimitKeyPerDevice(client, func, device_id) == <<client, func, device_id>>

\* key = f"{id(args[0])}:{func.__name__}": args[0] is the client (self); the
\* device id, args[1], is not part of the key
RateLimitKey(client, func, device_id) == <<client, func, "-">>

\* the keys acquire is called with
Keys == {RateLimitKey(cl, "get_device_status", d) : cl \in Clients, d \in Devices}

\* a mutant of LockIndex: one lock for all keys
LockIndexGlobal(key) == <<"global", "lock", "-">>

\* get_lock: self._locks[key]
LockIndex(key) == key

\* asyncio.Lock(): unlocked, no waiters
NewLock == [locked |-> FALSE, waiters |-> <<>>]

\* a caller that is not inside wrapper/acquire; via tells whether acquire was
\* called by the decorator's wrapper or directly
IdleCaller ==
    [pc |-> "idle", key |-> <<"-", "-", "-">>, min_interval |-> 0, wake_at |-> 0,
     via |-> "-", client |-> "-", device |-> "-"]

\* no assignment to _last_call_time yet
NoRecord ==
    [key |-> <<"-", "-", "-">>, stamp |-> 0, has_prev |-> FALSE, prev |-> 0,
     min_interval |-> 0, device |-> "-"]

\* no caller was cancelled yet
NoCancel == [pc |-> "-", key |-> <<"-", "-", "-">>]

\* RateLimiter.__init__: no timestamps, no locks
RateStart ==
    /\ now = 0
    /\ last_call_time = <<>>
    /\ locks = <<>>
    /\ rl = [c \in Callers |-> IdleCaller]
    /\ last_device = <<>>
    /\ last_record = NoRecord
    /\ last_cancel = NoCancel

\* get_lock(key): the lock of the key, created on first use
GetLock(key) ==
    IF LockIndex(key) \in DOMAIN locks THEN locks[LockIndex(key)] ELSE NewLock

\* the dictionary with one entry set (d[k] = v)
Put(d, k, v) == [x \in DOMAIN d \cup {k} |-> IF x = k THEN v ELSE d[x]]

\* a mutant of CanLock: the lock is taken although it is held
CanLockAlways(lock) == TRUE

\* asyncio.Lock.acquire succeeds at once when the lock is free and no one waits
CanLock(lock) == ~lock.locked /\ lock.waiters = <<>>

\* a mutant of WaitTime: the sleep is one tick short
WaitTimeShort(min_interval, elapsed) == min_interval - elapsed - 1

\* wait_time = min_interval - elapsed
WaitTime(min_interval, elapsed) == min_interval - elapsed

\* lock.release()
Release(lock) == [lock EXCEPT !.locked = FALSE]

\* self._last_call_time[key] = time.monotonic(), by the caller with record me
RecordCall(me) ==
    /\ last_call_time' = Put(last_call_time, me.key, now)
    /\ last_device' = Put(last_device, me.key, me.device)
    /\ last_record' =
           IF me.key \in DOMAIN last_call_time
           THEN [key |-> me.key, stamp |-> now, has_prev |-> TRUE,
                 prev |-> last_call_time[me.key], min_interval |-> me.min_interval,
                 device |-> me.device]
           ELSE [NoRecord EXCEPT !.key = me.key, !.stamp = now,
                                 !.min_interval = me.min_interval,
                                 !.device = me.device]

\* acquire returns: a direct caller is done, the wrapper goes on to
\* `return await func(*args, **kwargs)` (line 74)
Acquired(me) ==
    IF me.via = "wrapper" THEN [me EXCEPT !.pc = "calling", !.wake_at = 0]
    ELSE IdleCaller

\* the body of acquire once the lock is held (lines 33-44), for caller c whose
\* record is `me` and the lock after it was taken is `held`
Locked(c, me, held) ==
    LET key == me.key
        li == LockIndex(key)
    IN  IF key \in DOMAIN last_call_time
           /\ now - last_call_time[key] < me.min_interval
        THEN \* await asyncio.sleep(wait_time), inside the lock
             /\ rl' = [rl EXCEPT ![c] =
                          [me EXCEPT !.pc = "sleeping",
                                     !.wake_at = now + WaitTime(me.min_interval,
                                                     now - last_call_time[key])]]
             /\ locks' = Put(locks, li, held)
             /\ UNCHANGED <<last_call_time, last_device, last_record>>
        ELSE /\ RecordCall(me)
             /\ rl' = [rl EXCEPT ![c] = Acquired(me)]
             /\ locks' = Put(locks, li, Release(held))

\* acquire(key, min_interval) is entered: get_lock, lock.acquire()
Enter(c, me) ==
    LET lock == GetLock(me.key)
    IN  IF CanLock(lock)
        THEN Locked(c, me, [lock EXCEPT !.locked = TRUE])
        ELSE /\ rl' = [rl EXCEPT ![c] = [me EXCEPT !.pc = "waiting"]]
             /\ locks' = Put(locks, LockIndex(me.key),
                             [lock EXCEPT !.waiters = Append(@, c)])
             /\ UNCHANGED <<last_call_time, last_device, last_record>>

\* rate_limit.wrapper: a call of the decorated get_device_status(device_id)
\* on a client computes its key and enters acquire
RateLimitedCall(c) ==
    /\ rl[c].pc = "idle"
    /\ \E cl \in Clients, d \in Devices :
           Enter(c, [IdleCaller EXCEPT
                        !.key = RateLimitKey(cl, "get_device_status", d),
                        !.min_interval = StatusMinInterval,
                        !.via = "wrapper", !.client = cl, !.device = d])
    /\ UNCHANGED <<now, last_cancel, not_rate_vars>>

\* RateLimiter.acquire called with any key and interval
Acquire(c) ==
    /\ rl[c].pc = "idle"
    /\ \E k \in Keys, i \in Intervals :
           Enter(c, [IdleCaller EXCEPT !.key = k, !.min_interval = i,
                                       !.via = "acquire"])
    /\ UNCHANGED <<now, last_cancel, not_rate_vars>>

\* the lock was released and the first waiter gets it
LockGranted(c) ==
    /\ rl[c].pc = "waiting"
    /\ LET lock == locks[LockIndex(rl[c].key)]
       IN  /\ ~lock.locked
           /\ lock.waiters # <<>>
           /\ Head(lock.waiters) = c
           /\ Locked(c, rl[c], [locked |-> TRUE, waiters |-> Tail(lock.waiters)])
    /\ UNCHANGED <<now, last_cancel, not_rate_vars>>

\* asyncio.sleep(wait_time) returns, at wake_at or later: the timestamp is
\* recorded and the lock released
SleepDone(c) ==
    /\ rl[c].pc = "sleeping"
    /\ now >= rl[c].wake_at
    /\ RecordCall(rl[c])
    /\ rl' = [rl EXCEPT ![c] = Acquired(rl[c])]
    /\ locks' = [locks EXCEPT ![LockIndex(rl[c].key)] = Release(@)]
    /\ UNCHANGED <<now, last_cancel, not_rate_vars>>

\* the wrapped function, awaited by the wrapper after acquire (line 74),
\* returns or raises
CallReturns(c) ==
    /\ rl[c].pc = "calling"
    /\ rl' = [rl EXCEPT ![c] = IdleCaller]
    /\ UNCHANGED <<now, last_call_time, locks, last_device, last_record,
                   last_cancel, not_rate_vars>>

\* the sequence without its element x
Without(seq, x) == SelectSeq(seq, LAMBDA y : y # x)

\* a mutant of Cancel: acquire has no finally clause, so a caller cancelled in
\* its sleep keeps the lock
CancelNoFinally(c) ==
    /\ rl[c].pc \in {"waiting", "sleeping"}
    /\ locks' = [locks EXCEPT ![LockIndex(rl[c].key)] =
                    IF rl[c].pc = "sleeping" THEN @
                    ELSE [@ EXCEPT !.waiters = Without(@, c)]]
    /\ rl' = [rl EXCEPT ![c] = IdleCaller]
    /\ last_cancel' = [pc |-> rl[c].pc, key |-> rl[c].key]
    /\ UNCHANGED <<now, last_call_time, last_device, last_record, not_rate_vars>>

\* the caller's task is cancelled while it waits for the lock (nothing to
\* release) or while it sleeps inside it (the finally clause releases)
Cancel(c) ==
    /\ rl[c].pc \in {"waiting", "sleeping"}
    /\ locks' = [locks EXCEPT ![LockIndex(rl[c].key)] =
                    IF rl[c].pc = "sleeping" THEN Release(@)
                    ELSE [@ EXCEPT !.waiters = Without(@, c)]]
    /\ rl' = [rl EXCEPT ![c] = IdleCaller]
    /\ last_cancel' = [pc |-> rl[c].pc, key |-> rl[c].key]
    /\ UNCHANGED <<now, last_call_time, last_device, last_record, not_rate_vars>>

\* the monotonic clock advances
Tick ==
    /\ now < MaxTime
    /\ now' = now + 1
    /\ UNCHANGED <<last_call_time, locks, rl, last_device, last_record,
                   last_cancel, not_rate_vars>>

\* callers of RateLimiter.acquire, with any key and interval
RateNext ==
    \/ \E c \in Callers : Acquire(c)
    \/ \E c \in Callers : LockGranted(c)
    \/ \E c \in Callers : SleepDone(c)
    \/ \E c \in Callers : Cancel(c)
    \/ Tick

\* callers of the decorated HafeleClient.get_device_status
StatusNext ==
    \/ \E c \in Callers : RateLimitedCall(c)
    \/ \E c \in Callers : LockGranted(c)
    \/ \E c \in Callers : SleepDone(c)
    \/ \E c \in Callers : CallReturns(c)
    \/ \E c \in Callers : Cancel(c)
    \/ Tick

\* a call of the decorated get_device_status on one client, made before the
\* horizon of the model: all these calls share one key
TimelyCall(c) ==
    /\ now < MaxTime
    /\ rl[c].pc = "idle"
    /\ Enter(c, [IdleCaller EXCEPT
                    !.key = RateLimitKey("client1", "get_device_status", "dev1"),
                    !.min_interval = StatusMinInterval,
                    !.via = "wrapper", !.client = "client1", !.device = "dev1"])
    /\ UNCHANGED <<now, last_cancel, not_rate_vars>>

\* the monotonic clock advances: up to the horizon, and past it for as long as
\* a caller sleeps
ClockTick ==
    /\ \/ now < MaxTime
       \/ \E c \in Callers : rl[c].pc = "sleeping" /\ rl[c].wake_at > now
    /\ now' = now + 1
    /\ UNCHANGED <<last_call_time, locks, rl, last_device, last_record,
                   last_cancel, not_rate_vars>>

\* callers of the decorated get_device_status whose tasks may be cancelled,
\* on an event loop that runs every task that is ready
StatusFairNext ==
    \/ \E c \in Callers : TimelyCall(c)
    \/ \E c \in Callers : LockGranted(c)
    \/ \E c \in Callers : SleepDone(c)
    \/ \E c \in Callers : CallReturns(c)
    \/ \E c \in Callers : Cancel(c)
    \/ ClockTick

----------------------------------------------------------------------------
(* HafeleUpdateCoordinator (coordinator.py), async_setup_entry (__init__.py) *)
(* and HaefeleConnectMeshSwitch.async_added_to_hass (switch.py), for one    *)
(* device                                                                   *)

\* the two background subtasks: _check_device_details, _check_for_new_entities
SubtaskKinds == {"details", "discovery"}

\* DEFAULT_SCAN_INTERVAL, the update_interval of a coordinator without options
DefaultScanInterval == 30

\* the configured device_details_update_interval and
\* new_devices_check_interval, in minutes (options of 1..60)
DeviceDetailsUpdateInterval == 1
NewDevicesCheckInterval == 2

CheckInterval(kind) ==
    IF kind = "details" THEN DeviceDetailsUpdateInterval ELSE NewDevicesCheckInterval

\* datetime.min: longer ago than any interval
DatetimeMin == 0 - 100

\* asyncio.TimeoutError and asyncio.CancelledError
TimeoutError ==
    [kind |-> "error", cls |-> "TimeoutError", status |-> NoStatus,
     code |-> "NONE", value |-> "none"]
CancelledError ==
    [kind |-> "error", cls |-> "CancelledError", status |-> NoStatus,
     code |-> "NONE", value |-> "none"]

\* the bodies of a status response that pass get_device_status (a mapping with
\* a "state" key), by what their "state" holds
StatusBodies == {"power+lightness", "power", "lightness", "empty", "not-a-mapping"}

\* the same error for a device whose id holds the digits 401: the id is part
\* of the request's URL (Endpoints.DEVICE_STATUS)
ForId401(e) == [e EXCEPT !.value = "id-401"]

\* what client.get_device_status returns or raises
StatusOutcomes ==
    {Returned(b) : b \in StatusBodies}
        \cup {HafeleAPIError(401, "OTHER"), HafeleAPIError(503, "OTHER"),
              HafeleAPIError(NoStatus, "TIMEOUT"), ValidationError, OtherException}
        \cup {ForId401(HafeleAPIError(503, "OTHER")),
              ForId401(HafeleAPIError(NoStatus, "NONE")),
              ForId401(HafeleAPIError(NoStatus, "TIMEOUT"))}

\* the keys of transformed_data["state"] (lines 280-289)
Transform(body, light) ==
    (IF body \in {"power+lightness", "power"} THEN {"power"} ELSE {})
        \cup (IF light /\ body \in {"power+lightness", "lightness"}
              THEN {"lightness", "lastLightness"} ELSE {})

\* the path _async_update_data takes for an outcome of the status fetch:
\* `"power" in status["state"]` raises when the state is not a container
CyclePath(o) ==
    IF o.kind = "ok"
    THEN IF o.value = "not-a-mapping" THEN "exception" ELSE "success"
    ELSE IF o.cls = "HafeleAPIError" THEN "api_error"
    ELSE IF o.cls = "CancelledError" THEN "cancelled"
    ELSE "exception"

\* a mutant of TimestampUpdates: the generic except clause forgets the timestamp
TimestampUpdatesNotOnException(path) ==
    IF path \in {"success", "api_error"} THEN 1 ELSE 0

\* the calls of self.device.update_timestamp() on each path (lines 312, 320, 340)
TimestampUpdates(path) ==
    IF path \in {"success", "api_error", "exception"} THEN 1 ELSE 0

\* the same count in the first version of the coordinator (src/coordinator.py,
\* lines 46-65): the timestamp is updated right after the fetch, and once more
\* by the except clause when building the snapshot raises (a body without
\* "power" or "lightness"); the clause catches every Exception
LegacyTimestampUpdates(o) ==
    IF o.kind = "ok"
    THEN IF o.value = "power+lightness" THEN 1 ELSE 2
    ELSE IF o.cls = "CancelledError" THEN 0 ELSE 1

\* a mutant of UpdateFailed: an API error is not surfaced as a failure
UpdateFailedOnExceptionOnly(path) == path = "exception"

\* the cycle raises UpdateFailed (lines 335, 346): the host then sets
\* last_update_success to False and keeps the schedule
UpdateFailed(path) == path \in {"api_error", "exception"}

\* `"401" in str(error)` (line 321): the status code is part of the text of a
\* HafeleAPIError ("HTTP Status: 401", "Status Code: 401"), and so is the URL
\* of the request, except in the message of a timeout (client.py lines 79-96)
Mentions401(o) ==
    \/ o.status = 401
    \/ o.value = "id-401" /\ o.code # "TIMEOUT"

\* a mutant of ReauthRequested: the reauth branch is missing
ReauthRequestedNever(o) == FALSE

\* the cycle starts a reauth flow (hass.config_entries.flow.async_init with
\* source "reauth", lines 321-334) before it raises UpdateFailed
ReauthRequested(o) ==
    /\ o.kind = "error"
    /\ o.cls = "HafeleAPIError"
    /\ Mentions401(o)

\* the fetch failed with HTTP 401
Unauthorized(o) == o.kind = "error" /\ o.cls = "HafeleAPIError" /\ o.status = 401

\* the except clauses of the subtasks (lines 119-124, 251-261) only log: no
\* reauth flow is started there
SubtaskReauth(kind, o) == FALSE

\* a mutant of MaySpawn: the interval check is missing
MaySpawnNoInterval(kind) == ~check_task[kind]

\* a mutant of MaySpawn: the in-flight check is missing
MaySpawnUnguarded(kind) == wall - last_check[kind] > CheckInterval(kind)

\* the condition of lines 293-296 and 303-306
MaySpawn(kind) ==
    /\ wall - last_check[kind] > CheckInterval(kind)
    /\ ~check_task[kind]

\* the subtask kinds a cycle spawns on a path: only the success path reaches
\* lines 291-310
Spawned(path) == IF path = "success" THEN {k \in SubtaskKinds : MaySpawn(k)} ELSE {}

\* what get_device_details / get_devices_for_network give a subtask, and the
\* errors raised inside it
SubtaskOutcomes(kind) ==
    (IF kind = "details" THEN {Returned("same-name"), Returned("new-name")}
     ELSE {Returned("no-new-device"), Returned("new-device")})
        \cup {HafeleAPIError(401, "OTHER"), HafeleAPIError(503, "OTHER"),
              ValidationError, TimeoutError, OtherException, CancelledError}

\* the ids of hass.data[DOMAIN][entry_id]["devices"], the listing the setup
\* stored (__init__.py line 105); nothing updates it afterwards
KnownDeviceIds == {"dev1"}

\* the keys of hass.data[DOMAIN][entry_id]["coordinators"]: the devices of the
\* setup's listing whose first refresh succeeded (__init__.py line 146)
CoordinatorIds == IF setup_pc = "registered" THEN KnownDeviceIds ELSE {}

\* the ids in the listing get_devices_for_network returns to discovery
Listing(value) ==
    IF value = "new-device" THEN KnownDeviceIds \cup {"dev2"} ELSE KnownDeviceIds

\* new_device_objects (lines 152-155)
NewDeviceIds(listing) == listing \ KnownDeviceIds

\* the new devices the loop does not skip (lines 167-168): those that have a
\* coordinator
DiscoveryCandidates(listing) ==
    {d \in NewDeviceIds(listing) : d \in CoordinatorIds}

\* the unique ids of the entities built for a device (lines 178-224); the
\* light or the switch by the device's kind, and the two diagnostic entities
EntityIds(d) ==
    {<<d, "light_or_switch">>, <<d, "last_update_success">>, <<d, "last_update">>}

\* what a discovery subtask meets after its listing arrived: the entry's data
\* is gone once the entry was unloaded (KeyError at line 148), and the
\* candidates' loop reads the undefined name entity_registry (NameError at
\* line 172); both are Exceptions
DiscoveryRaises(listing) == unloaded \/ DiscoveryCandidates(listing) # {}

\* the entities passed to the platforms' add callbacks (lines 226-237)
DiscoveryAdds(listing) ==
    IF DiscoveryRaises(listing) THEN {}
    ELSE UNION {EntityIds(d) : d \in DiscoveryCandidates(listing)}

\* the outcome of a subtask as a whole, given what its fetch returned or raised
SubtaskResult(kind, o) ==
    IF kind = "discovery" /\ o.kind = "ok" /\ DiscoveryRaises(Listing(o.value))
    THEN OtherException
    ELSE o

\* a mutant of Absorbed: the subtask catches HafeleAPIError only
AbsorbedApiErrorOnly(kind, o) == o.cls = "HafeleAPIError"

\* the except clauses of the subtasks (lines 119-124, 138-143, 251-261):
\* asyncio.TimeoutError and every Exception; CancelledError is no Exception
Absorbed(kind, o) ==
    o.cls \in {"TimeoutError", "HafeleAPIError", "ValidationError", "Exception"}

\* a mutant of ClearsTaskField: the field is cleared at the end of the try
\* block and in the except clauses, not in a finally clause
ClearsTaskFieldUnlessCancelled(kind, o) == o.cls # "CancelledError"

\* the finally clauses of the subtasks (lines 125-126, 262-263) set the task
\* field to None however the coroutine ends
ClearsTaskField(kind, o) == TRUE

NoCycle ==
    [path |-> "none", updates |-> 0, spawned |-> {},
     unauthorized |-> FALSE, reauth |-> FALSE]

\* no subtask has raised an error: none was logged and absorbed, none
\* escaped its coroutine, none was a 401 and none started a reauth flow
NoSubtaskErrors ==
    [logged |-> FALSE, escaped |-> FALSE, unauthorized |-> FALSE,
     reauth |-> FALSE]

\* HafeleUpdateCoordinator.__init__ for the device of the setup's list
CoordStart(socket) ==
    /\ wall = 0
    /\ coord_pc = "idle"
    /\ device = [obj |-> 0, name |-> 0]
    /\ last_updated = 0
    /\ setup_last_updated = 0
    /\ last_check = [k \in SubtaskKinds |-> DatetimeMin]
    /\ check_task = [k \in SubtaskKinds |-> FALSE]
    /\ running = [k \in SubtaskKinds |-> 0]
    /\ data = {}
    /\ last_update_success = TRUE
    /\ setup_pc = "start"
    /\ switch_pc = "none"
    /\ is_socket = socket
    /\ cycle = NoCycle
    /\ sub_errors = NoSubtaskErrors
    /\ update_interval = DefaultScanInterval
    /\ unloaded = FALSE
    /\ added_entities = {}
    /\ new_seen = FALSE

\* async_setup_entry, lines 127-130: inside asyncio.timeout, the initial
\* client.get_device_status(device.id) is awaited
SetupInitialFetch ==
    /\ setup_pc = "start"
    /\ setup_pc' = "initial_fetch"
    /\ UNCHANGED <<wall, coord_pc, device, last_updated,
                   setup_last_updated, last_check, check_task,
                   running, data, last_update_success, switch_pc, is_socket,
                   cycle, sub_errors>>
    /\ UNCHANGED coord_rest
    /\ UNCHANGED not_coord_vars

\* the initial fetch ends: on a result, async_config_entry_first_refresh is
\* awaited (line 137); on an error or the timeout the device is skipped
SetupInitialFetchDone ==
    /\ setup_pc = "initial_fetch"
    /\ \E o \in StatusOutcomes \cup {TimeoutError} :
           setup_pc' = IF o.kind = "ok" THEN "first_refresh" ELSE "skipped"
    /\ UNCHANGED <<wall, coord_pc, device, last_updated,
                   setup_last_updated, last_check, check_task,
                   running, data, last_update_success, switch_pc, is_socket,
                   cycle, sub_errors>>
    /\ UNCHANGED coord_rest
    /\ UNCHANGED not_coord_vars

\* a refresh is due: the first refresh of the setup, or the scheduled one once
\* the coordinator has a listener (an entity was added)
RefreshDue ==
    \/ setup_pc = "first_refresh" /\ cycle.path = "none"
    \/ setup_pc = "registered" /\ switch_pc # "none" /\ ~unloaded

\* _async_update_data is entered and calls client.get_device_status, which
\* first passes the rate limiter (lines 269-277)
PollStart ==
    /\ coord_pc = "idle"
    /\ RefreshDue
    /\ coord_pc' = "acquire"
    /\ UNCHANGED <<wall, device, last_updated,
                   setup_last_updated, last_check, check_task, running,
                   data, last_update_success, setup_pc, switch_pc, is_socket,
                   cycle, sub_errors>>
    /\ UNCHANGED coord_rest
    /\ UNCHANGED not_coord_vars

\* the rate limiter lets the call through: the HTTP request is in flight
PollAdmitted ==
    /\ coord_pc = "acquire"
    /\ coord_pc' = "fetching"
    /\ UNCHANGED <<wall, device, last_updated,
                   setup_last_updated, last_check, check_task, running,
                   data, last_update_success, setup_pc, switch_pc, is_socket,
                   cycle, sub_errors>>
    /\ UNCHANGED coord_rest
    /\ UNCHANGED not_coord_vars

\* the setup step that follows the end of a cycle: the first refresh succeeded
\* (coordinators[device.id] = coordinator, line 146) or failed (the device is
\* skipped, lines 148-161)
SetupAfterCycle(path) ==
    IF setup_pc = "first_refresh"
    THEN IF path = "success" THEN "registered" ELSE "skipped"
    ELSE setup_pc

\* the status fetch of the cycle ends and _async_update_data runs to its end
\* (lines 277-346)
PollFetchDone ==
    /\ coord_pc = "fetching"
    /\ \E o \in StatusOutcomes :
        LET path == CyclePath(o)
            kinds == Spawned(path)
        IN  /\ coord_pc' = "idle"
            /\ last_check' = [k \in SubtaskKinds |->
                                 IF k \in kinds THEN wall ELSE last_check[k]]
            /\ check_task' = [k \in SubtaskKinds |-> check_task[k] \/ k \in kinds]
            /\ running' = [k \in SubtaskKinds |->
                              running[k] + (IF k \in kinds THEN 1 ELSE 0)]
            /\ last_updated' =
                   IF TimestampUpdates(path) > 0
                   THEN wall
                   ELSE last_updated
            \* update_timestamp() is called on self.device: on the object of
            \* the setup only while the coordinator still refers to it
            /\ setup_last_updated' =
                   IF TimestampUpdates(path) > 0 /\ device.obj = 0
                   THEN wall
                   ELSE setup_last_updated
            /\ data' = IF path = "success" THEN Transform(o.value, ~is_socket)
                       ELSE data
            /\ last_update_success' = ~UpdateFailed(path)
            /\ cycle' = [path |-> path, updates |-> TimestampUpdates(path),
                         spawned |-> kinds,
                         unauthorized |-> Unauthorized(o),
                         reauth |-> ReauthRequested(o)]
            /\ setup_pc' = SetupAfterCycle(path)
    /\ UNCHANGED <<wall, device, switch_pc, is_socket, sub_errors>>
    /\ UNCHANGED coord_rest
    /\ UNCHANGED not_coord_vars

\* the cycle is cancelled while it awaits get_device_status (the timeout of
\* the setup): CancelledError is re-raised (lines 336-338)
PollCancelled ==
    /\ coord_pc \in {"acquire", "fetching"}
    /\ setup_pc = "first_refresh"
    /\ coord_pc' = "idle"
    /\ setup_pc' = "skipped"
    /\ cycle' = [path |-> "cancelled", updates |-> TimestampUpdates("cancelled"),
                 spawned |-> {}, unauthorized |-> FALSE, reauth |-> FALSE]
    /\ UNCHANGED <<wall, device, last_updated,
                   setup_last_updated, last_check, check_task, running,
                   data, last_update_success, switch_pc, is_socket, sub_errors>>
    /\ UNCHANGED coord_rest
    /\ UNCHANGED not_coord_vars

\* a subtask ends (lines 90-126, 128-263): a changed name swaps the
\* coordinator's device; an error is logged and absorbed by the except
\* clauses; the finally clause clears the task field
SubtaskDone(kind) ==
    /\ running[kind] > 0
    /\ \E fetched \in SubtaskOutcomes(kind) :
        LET o == SubtaskResult(kind, fetched)
            listing == IF kind = "discovery" /\ fetched.kind = "ok"
                       THEN Listing(fetched.value) ELSE KnownDeviceIds
        IN
        /\ device' = IF o = Returned("new-name")
                     THEN [obj |-> 1, name |-> 1 - device.name]
                     ELSE device
        \* the Device built from the response was stamped by its constructor
        \* (models/device.py line 224)
        /\ last_updated' = IF o = Returned("new-name") THEN wall ELSE last_updated
        /\ sub_errors' =
               IF o.kind # "error" \/ o.cls = "CancelledError" THEN sub_errors
               ELSE IF Absorbed(kind, o)
                    THEN [sub_errors EXCEPT
                              !.logged = TRUE,
                              !.unauthorized = @ \/ Unauthorized(o),
                              !.reauth = @ \/ SubtaskReauth(kind, o)]
               ELSE [sub_errors EXCEPT !.escaped = TRUE]
        /\ added_entities' = added_entities \cup DiscoveryAdds(listing)
        /\ new_seen' = (new_seen \/ NewDeviceIds(listing) # {})
        /\ check_task' = IF ClearsTaskField(kind, o)
                         THEN [check_task EXCEPT ![kind] = FALSE]
                         ELSE check_task
    /\ running' = [running EXCEPT ![kind] = @ - 1]
    /\ UNCHANGED <<wall, coord_pc, setup_last_updated, last_check, data,
                   last_update_success, setup_pc, switch_pc, is_socket, cycle>>
    /\ UNCHANGED <<update_interval, unloaded>>
    /\ UNCHANGED not_coord_vars

\* the platforms are set up; the switch entity of a socket is added and, after
\* registering as listener of the coordinator, fetches the status itself
\* (switch.py lines 156-162)
SwitchAdded ==
    /\ setup_pc = "registered"
    /\ switch_pc = "none"
    /\ switch_pc' = IF is_socket THEN "acquire" ELSE "listening"
    /\ UNCHANGED <<wall, coord_pc, device, last_updated,
                   setup_last_updated, last_check, check_task,
                   running, data, last_update_success, setup_pc, is_socket,
                   cycle, sub_errors>>
    /\ UNCHANGED coord_rest
    /\ UNCHANGED not_coord_vars

\* the rate limiter lets the entity's call through
SwitchAdmitted ==
    /\ switch_pc = "acquire"
    /\ switch_pc' = "fetching"
    /\ UNCHANGED <<wall, coord_pc, device, last_updated,
                   setup_last_updated, last_check, check_task,
                   running, data, last_update_success, setup_pc, is_socket,
                   cycle, sub_errors>>
    /\ UNCHANGED coord_rest
    /\ UNCHANGED not_coord_vars

\* the entity's fetch ends: a result is stored as coordinator.data
\* (self.coordinator.data = {"state": status}, line 163), an error is logged
SwitchFetchDone ==
    /\ switch_pc = "fetching"
    /\ \E o \in StatusOutcomes :
           data' = IF o.kind = "ok" THEN {"state"} ELSE data
    /\ switch_pc' = "listening"
    /\ UNCHANGED <<wall, coord_pc, device, last_updated,
                   setup_last_updated, last_check, check_task,
                   running, last_update_success, setup_pc, is_socket, cycle,
                   sub_errors>>
    /\ UNCHANGED coord_rest
    /\ UNCHANGED not_coord_vars

\* async_unload_entry (__init__.py lines 202-211): the platforms are unloaded,
\* coordinator.async_shutdown() is called, and the entry's data is dropped.
\* The coordinator defines no shutdown of its own and nothing cancels the
\* tasks it created: a cycle or a subtask in flight goes on
Unload ==
    /\ setup_pc = "registered"
    /\ ~unloaded
    /\ unloaded' = TRUE
    /\ UNCHANGED <<wall, coord_pc, device, last_updated,
                   setup_last_updated, last_check, check_task,
                   running, data, last_update_success, setup_pc, switch_pc,
                   is_socket, cycle, sub_errors>>
    /\ UNCHANGED <<update_interval, added_entities, new_seen>>
    /\ UNCHANGED not_coord_vars

\* datetime.now() advances
WallTick ==
    /\ wall < MaxWall
    /\ wall' = wall + 1
    /\ UNCHANGED <<coord_pc, device, last_updated,
                   setup_last_updated, last_check, check_task,
                   running, data, last_update_success, setup_pc, switch_pc,
                   is_socket, cycle, sub_errors>>
    /\ UNCHANGED coord_rest
    /\ UNCHANGED not_coord_vars

CoordNext ==
    \/ SetupInitialFetch
    \/ SetupInitialFetchDone
    \/ PollStart
    \/ PollAdmitted
    \/ PollFetchDone
    \/ PollCancelled
    \/ \E kind \in SubtaskKinds : SubtaskDone(kind)
    \/ SwitchAdded
    \/ SwitchAdmitted
    \/ SwitchFetchDone
    \/ Unload
    \/ WallTick

\* the coordinator of a light with its subtasks: the setup, the poll cycles,
\* the subtasks and the clock
SubtaskNext ==
    \/ SetupInitialFetch
    \/ SetupInitialFetchDone
    \/ PollStart
    \/ PollAdmitted
    \/ PollFetchDone
    \/ \E kind \in SubtaskKinds : SubtaskDone(kind)
    \/ SwitchAdded
    \/ WallTick

----------------------------------------------------------------------------
(* HafeleClient: the command operations and get_device_status *)

\* device types, one of each combination of capabilities (models/device.py)
DeviceTypes ==
    {"de.ledvance.socket", "com.haefele.led.white",
     "com.haefele.led.multiwhite.spot", "com.haefele.led.rgb",
     "com.haefele.q.dev.multiwhite"}

\* DeviceType.is_light: the value starts with com.haefele.led, com.generic.led
\* or de.nimbus
IsLight(t) ==
    t \in {"com.haefele.led.white", "com.haefele.led.multiwhite.spot",
           "com.haefele.led.rgb"}

\* DeviceType.supports_color_temp
SupportsColorTemp(t) ==
    t \in {"com.haefele.led.multiwhite.spot", "com.haefele.q.dev.multiwhite"}

\* DeviceType.supports_hsl
SupportsHsl(t) == t = "com.haefele.led.rgb"

\* the default of set_hsl's lightness parameter: None
NoneArg == 0 - 999

\* the arguments the model calls with: lightness and saturation in tenths,
\* at and around the ends of their ranges
LightnessArgs == {0 - 1, 0, 10, 11}
TemperatureArgs == {0 - 1, 0, 65535, 65536}
HueArgs == {0 - 1, 0, 360, 361}
SaturationArgs == {0 - 1, 0, 10, 11}

Commands == {"set_power", "set_lightness", "set_temperature", "set_hsl"}

Call(op, t, l, temp, h, sat) ==
    [op |-> op, dtype |-> t, lightness |-> l, temperature |-> temp,
     hue |-> h, saturation |-> sat]

NoCall == Call("none", "none", 0, 0, 0, 0)

\* the calls of the model
Calls ==
    {Call(op, t, 0, 0, 0, 0) :
         op \in {"set_power", "get_device_status"}, t \in DeviceTypes}
    \cup {Call("set_lightness", t, l, 0, 0, 0) :
              t \in DeviceTypes, l \in LightnessArgs}
    \cup {Call("set_temperature", t, 0, temp, 0, 0) :
              t \in DeviceTypes, temp \in TemperatureArgs}
    \cup {Call("set_hsl", t, l, 0, h, sat) :
              t \in DeviceTypes, l \in LightnessArgs \cup {NoneArg},
              h \in HueArgs, sat \in SaturationArgs}

\* an exception of a class other than HafeleAPIError
Raised(cls) ==
    [kind |-> "error", cls |-> cls, status |-> NoStatus, code |-> "NONE",
     value |-> "none"]

\* a mutant of PreconditionError: the range checks of set_temperature and
\* set_hsl are missing
PreconditionErrorNoRange(c) ==
    IF c.op = "set_lightness"
    THEN IF ~IsLight(c.dtype) THEN "ValidationError"
         ELSE IF ~(0 <= c.lightness /\ c.lightness <= 10) THEN "ValueError"
         ELSE "none"
    ELSE IF c.op = "set_temperature"
    THEN IF ~SupportsColorTemp(c.dtype) THEN "ValidationError" ELSE "none"
    ELSE IF c.op = "set_hsl"
    THEN IF ~SupportsHsl(c.dtype) THEN "ValidationError" ELSE "none"
    ELSE "none"

\* the checks a command makes before its try block: the class of the
\* exception raised, "none" when the call goes on (lines 514-518, 589-597,
\* 670-679); `0 <= None` raises a TypeError
PreconditionError(c) ==
    IF c.op = "set_lightness"
    THEN IF ~IsLight(c.dtype) THEN "ValidationError"
         ELSE IF ~(0 <= c.lightness /\ c.lightness <= 10) THEN "ValueError"
         ELSE "none"
    ELSE IF c.op = "set_temperature"
    THEN IF ~SupportsColorTemp(c.dtype) THEN "ValidationError"
         ELSE IF ~(0 <= c.temperature /\ c.temperature <= 65535) THEN "ValueError"
         ELSE "none"
    ELSE IF c.op = "set_hsl"
    THEN IF ~SupportsHsl(c.dtype) THEN "ValidationError"
         ELSE IF ~(0 <= c.hue /\ c.hue <= 360) THEN "ValueError"
         ELSE IF ~(0 <= c.saturation /\ c.saturation <= 10) THEN "ValueError"
         ELSE IF c.lightness = NoneArg THEN "TypeError"
         ELSE IF ~(0 <= c.lightness /\ c.lightness <= 10) THEN "ValueError"
         ELSE "none"
    ELSE "none"

\* the default max_attempts of retry_with_backoff, which _request uses
ClientMaxAttempts == 5

\* what one HTTP request of _request gives: a 2xx response, or the
\* HafeleAPIError built from a client error or a timeout (lines 66-96)
HttpOutcomes ==
    {Returned("2xx"), HafeleAPIError(401, "OTHER"), HafeleAPIError(503, "OTHER"),
     HafeleAPIError(NoStatus, "TIMEOUT")}

\* the bodies of a 2xx response
CommandBodies ==
    {"success-true", "success-false", "no-success-key", "not-a-mapping",
     "not-json"}
StatusResponseBodies ==
    {"mapping-with-state", "mapping-without-state", "not-a-mapping", "not-json"}

BodiesOf(op) ==
    IF op = "get_device_status" THEN StatusResponseBodies ELSE CommandBodies

\* a mutant of BodyResult: no command reads the body of the 2xx response
BodyResultUnread(op, body) ==
    IF op \in Commands THEN Returned("None")
    ELSE IF body = "mapping-with-state" THEN Returned("status")
    ELSE ValidationError

\* what an operation does with the 2xx response: set_power never reads the
\* body (lines 429-436); the other commands decode it and require a true
\* "success" entry (lines 542-547, 621-626, 709-714); get_device_status
\* decodes it and requires a mapping with a "state" key (lines 341-358).
\* response.json() raises on a body that is no JSON, and `.get` on a body that
\* is no mapping
BodyResult(op, body) ==
    IF op = "set_power" THEN Returned("None")
    ELSE IF body = "not-json" THEN Raised("ContentTypeError")
    ELSE IF op = "get_device_status"
    THEN IF body = "mapping-with-state" THEN Returned("status")
         ELSE ValidationError
    ELSE IF body = "not-a-mapping" THEN Raised("AttributeError")
    ELSE IF body = "success-true" THEN Returned("None")
    ELSE HafeleAPIError(NoStatus, "OTHER")

\* device.update_timestamp() is the statement after the body check of a
\* command (lines 436, 549, 628, 716); get_device_status has none
UpdatesTimestamp(op, result) == op \in Commands /\ result.kind = "ok"

ClientStart ==
    /\ cl_pc = "idle"
    /\ cl_op = NoCall
    /\ cl_attempt = 0
    /\ http_calls = 0
    /\ cl_body = "none"
    /\ cl_result = NoError
    /\ cl_now = 0
    /\ dev_last_updated = 0
    /\ dev_before = 0

\* an operation is called: its preconditions are checked, and it goes on to
\* _request or raises
ClientCall ==
    /\ cl_pc = "idle"
    /\ cl_now < MaxOps
    /\ \E c \in Calls :
        /\ cl_op' = c
        /\ cl_pc' = IF PreconditionError(c) = "none" THEN "request" ELSE "done"
        /\ cl_result' = IF PreconditionError(c) = "none" THEN NoError
                        ELSE Raised(PreconditionError(c))
    /\ cl_now' = cl_now + 1
    /\ dev_before' = dev_last_updated
    /\ cl_attempt' = 0
    /\ http_calls' = 0
    /\ cl_body' = "none"
    /\ UNCHANGED dev_last_updated
    /\ UNCHANGED not_client_vars

\* one attempt of _request inside retry_with_backoff: a 2xx response is
\* returned to the operation, an error is retried or raised
ClientRequest ==
    /\ cl_pc = "request"
    /\ http_calls' = http_calls + 1
    /\ \E o \in HttpOutcomes :
        IF o.kind = "ok"
        THEN /\ cl_pc' = "body"
             /\ UNCHANGED <<cl_attempt, cl_result>>
        ELSE IF ShouldRetry(o) /\ ~LastAttempt(cl_attempt, ClientMaxAttempts)
        THEN /\ cl_attempt' = cl_attempt + 1
             /\ UNCHANGED <<cl_pc, cl_result>>
        ELSE /\ cl_pc' = "done"
             /\ cl_result' = o
             /\ UNCHANGED cl_attempt
    /\ UNCHANGED <<cl_op, cl_body, cl_now, dev_last_updated, dev_before>>
    /\ UNCHANGED not_client_vars

\* the operation handles the 2xx response and returns or raises
ClientBody ==
    /\ cl_pc = "body"
    /\ \E body \in BodiesOf(cl_op.op) :
        LET result == BodyResult(cl_op.op, body)
        IN  /\ cl_body' = body
            /\ cl_result' = result
            /\ dev_last_updated' = IF UpdatesTimestamp(cl_op.op, result)
                                   THEN cl_now ELSE dev_last_updated
    /\ cl_pc' = "done"
    /\ UNCHANGED <<cl_op, cl_attempt, http_calls, cl_now, dev_before>>
    /\ UNCHANGED not_client_vars

\* the caller has the result; the client is free for the next call
ClientReturn ==
    /\ cl_pc = "done"
    /\ cl_pc' = "idle"
    /\ UNCHANGED <<cl_op, cl_attempt, http_calls, cl_body, cl_result, cl_now,
                   dev_last_updated, dev_before>>
    /\ UNCHANGED not_client_vars

ClientNext ==
    \/ ClientCall
    \/ ClientRequest
    \/ ClientBody
    \/ ClientReturn

----------------------------------------------------------------------------
(* The scale conversions of HafeleClient (api/client.py 733-876) *)

\* a number: the quotient num/den of two integers, den > 0
Num(n, d) == [num |-> n, den |-> d]

\* what a conversion gives: a number, a ValueError, or None
ConvOk(n, d) == [kind |-> "ok", num |-> n, den |-> d]
ConvValueError == [kind |-> "ValueError", num |-> 0, den |-> 1]
ConvNone == [kind |-> "None", num |-> 0, den |-> 1]

\* the ends of the four scales
MaxBrightness == 255
MaxMesh == 65535
MinMireds == 153
MaxMireds == 500

\* a mutant of InRange: only the upper end is tested
InRangeUpperOnly(x, lo, hi) == x.num <= hi * x.den

\* `lo <= x <= hi`
InRange(x, lo, hi) == lo * x.den <= x.num /\ x.num <= hi * x.den

\* a mutant of PyRound: halves are rounded down
PyRoundDown(n, d) == n \div d

\* Python's round() of the quotient n/d, d > 0: to the nearest integer, a
\* half to the even neighbour.  The float quotient the code rounds is on the
\* same side of every half as the exact quotient, for every argument the
\* model calls the conversions with
PyRound(n, d) ==
    LET q == n \div d
        r == n % d
    IN  IF 2 * r > d \/ (2 * r = d /\ q % 2 = 1) THEN q + 1 ELSE q

brightness_to_api(x) ==
    IF ~InRange(x, 0, MaxBrightness) THEN ConvValueError
    ELSE ConvOk(x.num, x.den * 255)

api_to_brightness(x) ==
    IF ~InRange(x, 0, 1) THEN ConvValueError
    ELSE ConvOk(PyRound(x.num * 255, x.den), 1)

mesh_to_brightness(x) ==
    IF ~InRange(x, 0, MaxMesh) THEN ConvValueError
    ELSE ConvOk(PyRound(x.num * 255, x.den * 65535), 1)

\* a mutant of brightness_to_mesh: the mesh scale is taken to have 65536 as
\* its top
brightness_to_meshPow2(x) ==
    IF ~InRange(x, 0, MaxBrightness) THEN ConvValueError
    ELSE ConvOk(PyRound(x.num * 65536, x.den * 255), 1)

brightness_to_mesh(x) ==
    IF ~InRange(x, 0, MaxBrightness) THEN ConvValueError
    ELSE ConvOk(PyRound(x.num * 65535, x.den * 255), 1)

api_to_mesh(x) ==
    IF ~InRange(x, 0, 1) THEN ConvValueError
    ELSE ConvOk(PyRound(x.num * 65535, x.den), 1)

mesh_to_api(x) ==
    IF ~InRange(x, 0, MaxMesh) THEN ConvValueError
    ELSE ConvOk(x.num, x.den * 65535)

\* round(153 + (mesh_value / 65535) * (500 - 153))
mesh_to_mireds(x) ==
    IF ~InRange(x, 0, MaxMesh) THEN ConvValueError
    ELSE ConvOk(PyRound(153 * 65535 * x.den + x.num * (500 - 153),
                        65535 * x.den), 1)

\* a mutant of mireds_to_mesh: the scale is taken to start at 0 mireds
mireds_to_meshNoOffset(x) ==
    IF ~InRange(x, MinMireds, MaxMireds) THEN ConvValueError
    ELSE ConvOk(PyRound(x.num * 65535, 500 * x.den), 1)

\* round(((mireds - 153) / (500 - 153)) * 65535)
mireds_to_mesh(x) ==
    IF ~InRange(x, MinMireds, MaxMireds) THEN ConvValueError
    ELSE ConvOk(PyRound((x.num - 153 * x.den) * 65535, (500 - 153) * x.den), 1)

\* HaefeleConnectMeshLight.brightness (src/light.py 144-154) on a snapshot
\* with the given power and lightness entries, the entity being available
LightBrightness(power, x) ==
    IF ~power THEN ConvNone ELSE mesh_to_brightness(x)

Conversions ==
    {"brightness_to_api", "api_to_brightness", "mesh_to_brightness",
     "brightness_to_mesh", "api_to_mesh", "mesh_to_api", "mesh_to_mireds",
     "mireds_to_mesh"}

Convert(fn, x) ==
    CASE fn = "brightness_to_api" -> brightness_to_api(x)
      [] fn = "api_to_brightness" -> api_to_brightness(x)
      [] fn = "mesh_to_brightness" -> mesh_to_brightness(x)
      [] fn = "brightness_to_mesh" -> brightness_to_mesh(x)
      [] fn = "api_to_mesh" -> api_to_mesh(x)
      [] fn = "mesh_to_api" -> mesh_to_api(x)
      [] fn = "mesh_to_mireds" -> mesh_to_mireds(x)
      [] fn = "mireds_to_mesh" -> mireds_to_mesh(x)

\* the scale a conversion reads and the scale it writes
SourceScale(fn) ==
    CASE fn \in {"brightness_to_api", "brightness_to_mesh"} -> "brightness"
      [] fn \in {"api_to_brightness", "api_to_mesh"} -> "api"
      [] fn \in {"mesh_to_brightness", "mesh_to_api", "mesh_to_mireds"} -> "mesh"
      [] fn = "mireds_to_mesh" -> "mireds"

TargetScale(fn) ==
    CASE fn \in {"api_to_brightness", "mesh_to_brightness"} -> "brightness"
      [] fn \in {"brightness_to_api", "mesh_to_api"} -> "api"
      [] fn \in {"brightness_to_mesh", "api_to_mesh", "mireds_to_mesh"} -> "mesh"
      [] fn = "mesh_to_mireds" -> "mireds"

\* the documented range of a scale: brightness 0..255, api 0..1,
\* mesh 0..65535, mireds 153..500
ScaleMin(scale) == IF scale = "mireds" THEN MinMireds ELSE 0

ScaleMax(scale) ==
    CASE scale = "brightness" -> MaxBrightness
      [] scale = "api" -> 1
      [] scale = "mesh" -> MaxMesh
      [] scale = "mireds" -> MaxMireds

InScale(scale, x) ==
    /\ ScaleMin(scale) * x.den <= x.num
    /\ x.num <= ScaleMax(scale) * x.den

\* the arguments the model calls a conversion with: the whole scale and
\* Margin values below and above it
ArgsOf(scale) ==
    CASE scale = "brightness" ->
             {Num(b, 1) : b \in (0 - Margin)..(MaxBrightness + Margin)}
      [] scale = "api" ->
             {Num(a, ApiSteps) : a \in (0 - Margin)..(ApiSteps + Margin)}
      [] scale = "mesh" ->
             {Num(m, 1) : m \in (0 - Margin)..(MaxMesh + Margin)}
      [] scale = "mireds" ->
             {Num(r, 1) : r \in (MinMireds - Margin)..(MaxMireds + Margin)}

\* the conversion back, for the round trips between the integer scales and
\* from a brightness through the API's scale
InverseOf(fn) ==
    CASE fn = "brightness_to_mesh" -> "mesh_to_brightness"
      [] fn = "mesh_to_brightness" -> "brightness_to_mesh"
      [] fn = "mireds_to_mesh" -> "mesh_to_mireds"
      [] fn = "mesh_to_mireds" -> "mireds_to_mesh"
      [] fn = "brightness_to_api" -> "api_to_brightness"
      [] OTHER -> "none"

NoConv == [fn |-> "none", arg |-> Num(0, 1)]

ConvStart ==
    /\ conv_pc = "idle"
    /\ conv_fn = "none"
    /\ conv_in = Num(0, 1)
    /\ conv_power = TRUE
    /\ conv_out = ConvNone
    /\ conv_from = NoConv

\* one conversion is called with one argument
ConvCall ==
    /\ conv_pc = "idle"
    /\ \E fn \in Conversions :
        \E x \in ArgsOf(SourceScale(fn)) :
            /\ conv_fn' = fn
            /\ conv_in' = x
            /\ conv_out' = Convert(fn, x)
    /\ conv_pc' = "called"
    /\ UNCHANGED <<conv_power, conv_from>>
    /\ UNCHANGED not_conv_vars

\* the result of a conversion is converted back
ConvInverse ==
    /\ conv_pc = "called"
    /\ conv_out.kind = "ok"
    /\ conv_fn \in Conversions
    /\ InverseOf(conv_fn) # "none"
    /\ conv_fn' = InverseOf(conv_fn)
    /\ conv_in' = Num(conv_out.num, conv_out.den)
    /\ conv_out' = Convert(InverseOf(conv_fn), Num(conv_out.num, conv_out.den))
    /\ conv_from' = [fn |-> conv_fn, arg |-> conv_in]
    /\ conv_pc' = "inverted"
    /\ UNCHANGED conv_power
    /\ UNCHANGED not_conv_vars

\* the light entity reports its brightness from the snapshot of a status
\* whose state holds a power and a lightness entry; the coordinator copies
\* both entries unchanged (coordinator.py 280-289)
ConvLightBrightness ==
    /\ conv_pc = "idle"
    /\ \E power \in BOOLEAN :
        \E x \in {a \in ArgsOf("mesh") : InScale("mesh", a)} :
            /\ conv_power' = power
            /\ conv_in' = x
            /\ conv_out' = LightBrightness(power, x)
    /\ conv_fn' = "light.brightness"
    /\ conv_pc' = "called"
    /\ UNCHANGED conv_from
    /\ UNCHANGED not_conv_vars

ConvNext ==
    \/ ConvCall
    \/ ConvInverse
    \/ ConvLightBrightness

----------------------------------------------------------------------------
(* Network (models/network.py) *)

\* the required top-level fields of a network payload: all there and
\* well-formed, one missing, or a date that parse_iso_date rejects
TopLevelShapes == {"valid", "missing-field", "bad-date"}

\* the "network" entry of the payload:
\*   absent               no such entry
\*   valid                a well-formed mesh configuration
\*   missing-field        a mapping without one of its required entries
\*   bad-key-entry        netKeys holds an entry whose index is no number
\*   bad-group-entry      groups holds an entry that is no mapping
\*   list-field-null      netKeys is null
\*   scalar-wrong-type    id is a number
\*   json-string          the entry is a string of undecoded JSON
\*   null                 the entry is null
SubDocumentShapes ==
    {"absent", "valid", "missing-field", "bad-key-entry", "bad-group-entry",
     "list-field-null", "scalar-wrong-type", "json-string", "null"}

Payloads == [top : TopLevelShapes, sub : SubDocumentShapes]

\* MeshConfiguration.from_dict (440-469): what it returns or raises.  It
\* turns a KeyError and a ValidationError into a ValidationError; NetworkKey
\* and ApplicationKey turn a TypeError and a ValueError of their own entries
\* into a ValidationError (69-82, 122-143), Group and AddressRange only a
\* KeyError (169-185, 342-362).  Subscripting a string or None, and iterating
\* over None, raise a TypeError that no clause catches; the fields' values
\* are stored unchecked
MeshConfigurationFromDict(sub) ==
    CASE sub \in {"valid", "scalar-wrong-type"} -> "MeshConfiguration"
      [] sub \in {"missing-field", "bad-key-entry"} -> "ValidationError"
      [] sub \in {"bad-group-entry", "list-field-null", "json-string", "null"}
             -> "TypeError"

\* Network.from_dict (658-695): the error raised ("none" when it returns) and
\* the _mesh_config of the Network returned
NetworkFromDict(payload) ==
    IF payload.top # "valid"
    THEN [error |-> "ValidationError", mesh_config |-> "None"]
    ELSE IF payload.sub = "absent"
    THEN [error |-> "none", mesh_config |-> "None"]
    ELSE LET config == MeshConfigurationFromDict(payload.sub)
         IN  CASE config = "MeshConfiguration" ->
                      [error |-> "none", mesh_config |-> config]
               [] config = "ValidationError" ->
                      [error |-> "none", mesh_config |-> "None"]
               [] OTHER -> [error |-> config, mesh_config |-> "None"]

\* the id of the network modelled, and the devices the API knows
NetworkId == "net1"

ApiDevices ==
    {[id |-> "a", network_id |-> "net1"], [id |-> "b", network_id |-> "net1"],
     [id |-> "c", network_id |-> "net2"]}

\* Python lists of devices of up to n entries
DeviceLists(n) == UNION {[1..k -> ApiDevices] : k \in 0..n}

\* [device for device in devices if device.network_id == self._id]
OfNetwork(devices) ==
    LET Mine(d) == d.network_id = NetworkId
    IN  SelectSeq(devices, Mine)

\* a mutant of FillsCache: the cache is filled again when it is empty
FillsCacheWhenFalsy(cached, devices) == ~cached \/ devices = <<>>

\* `if self._devices is None`
FillsCache(cached, devices) == ~cached

NetStart ==
    /\ net_pc = "unparsed"
    /\ net_data = [top |-> "valid", sub |-> "absent"]
    /\ net_error = "none"
    /\ net_mesh_config = "None"
    /\ net_cached = FALSE
    /\ net_devices = <<>>
    /\ net_last_updated = 0
    /\ net_now = 0
    /\ net_supplied = <<>>
    /\ net_first = <<>>
    /\ net_returned = <<>>
    /\ net_before = [cached |-> FALSE, devices |-> <<>>, last_updated |-> 0]

\* Network.from_dict on a payload of the API; the constructor sets
\* _devices = None and stamps _last_updated
NetworkParse ==
    /\ net_pc = "unparsed"
    /\ \E payload \in Payloads :
        /\ net_data' = payload
        /\ net_error' = NetworkFromDict(payload).error
        /\ net_mesh_config' = NetworkFromDict(payload).mesh_config
        /\ net_pc' = IF NetworkFromDict(payload).error = "none"
                     THEN "parsed" ELSE "failed"
    /\ net_last_updated' = net_now
    /\ UNCHANGED <<net_cached, net_devices, net_now, net_supplied, net_first,
                   net_returned, net_before>>
    /\ UNCHANGED not_net_vars

\* Network.get_devices(devices) (544-560)
NetworkGetDevices ==
    /\ net_pc = "parsed"
    /\ net_now < MaxGetDevices
    /\ net_now' = net_now + 1
    /\ \E devices \in DeviceLists(MaxListLen) :
        /\ net_supplied' = devices
        /\ net_first' = IF net_now = 0 THEN devices ELSE net_first
        /\ IF FillsCache(net_cached, net_devices)
           THEN /\ net_devices' = OfNetwork(devices)
                /\ net_cached' = TRUE
                /\ net_last_updated' = net_now'
           ELSE UNCHANGED <<net_devices, net_cached, net_last_updated>>
    /\ net_returned' = net_devices'
    /\ net_before' = [cached |-> net_cached, devices |-> net_devices,
                      last_updated |-> net_last_updated]
    /\ UNCHANGED <<net_pc, net_data, net_error, net_mesh_config>>
    /\ UNCHANGED not_net_vars

NetNext ==
    \/ NetworkParse
    \/ NetworkGetDevices

----------------------------------------------------------------------------
(* Group (models/group.py) and the Device properties it reads *)

\* the types of the member devices: the types of the client's model and a
\* sensor
MemberTypes == DeviceTypes \cup {"com.haefele.motion.sensor"}

GroupPredicates ==
    {"is_light", "is_switch", "is_sensor", "supports_color_temp", "supports_hsl"}

PyBool(b) == IF b THEN "True" ELSE "False"

\* the Device property of the same name (models/device.py 349-384):
\* is_light, supports_color_temp and supports_hsl ask the DeviceType;
\* is_switch compares the DeviceType with a string, which is never equal;
\* is_sensor calls startswith on the DeviceType, an Enum member without such
\* an attribute
DevicePredicate(p, t) ==
    CASE p = "is_light" -> PyBool(IsLight(t))
      [] p = "is_switch" -> "False"
      [] p = "is_sensor" -> "AttributeError"
      [] p = "supports_color_temp" -> PyBool(SupportsColorTemp(t))
      [] p = "supports_hsl" -> PyBool(SupportsHsl(t))

\* all(device.p for device in self._devices): the members are asked in order
\* up to the first that is not true; an exception of a member ends the call
RECURSIVE PyAll(_, _)
PyAll(p, devices) ==
    IF devices = <<>> THEN "True"
    ELSE LET v == DevicePredicate(p, Head(devices))
         IN  IF v = "True" THEN PyAll(p, Tail(devices)) ELSE v

\* lists of up to n member devices
MemberLists(n) == UNION {[1..k -> MemberTypes] : k \in 0..n}

GroupStart ==
    /\ grp_pc = "none"
    /\ grp_devices = <<>>
    /\ grp_pred = "none"
    /\ grp_result = "none"

\* Group.from_dict: the constructor sets _devices = []
GroupFromDict ==
    /\ grp_pc = "none"
    /\ grp_pc' = "built"
    /\ grp_devices' = <<>>
    /\ UNCHANGED <<grp_pred, grp_result>>
    /\ UNCHANGED not_grp_vars

\* the devices setter
GroupSetDevices ==
    /\ grp_pc \in {"built", "read"}
    /\ \E devices \in MemberLists(MaxListLen) : grp_devices' = devices
    /\ grp_pc' = "built"
    /\ grp_pred' = "none"
    /\ grp_result' = "none"
    /\ UNCHANGED not_grp_vars

\* one of the capability properties is read
GroupRead ==
    /\ grp_pc \in {"built", "read"}
    /\ \E p \in GroupPredicates :
        /\ grp_pred' = p
        /\ grp_result' = PyAll(p, grp_devices)
    /\ grp_pc' = "read"
    /\ UNCHANGED grp_devices
    /\ UNCHANGED not_grp_vars

GroupNext ==
    \/ GroupFromDict
    \/ GroupSetDevices
    \/ GroupRead

----------------------------------------------------------------------------
(* DeviceType and Device (models/device.py), for one device *)

\* the values of DeviceType, written as their dot-separated segments; no
\* prefix the properties test ends inside a segment of a value
DeviceTypeValues ==
    {<<"de", "ledvance", "socket">>,
     <<"de", "jung", "socket">>,
     <<"de", "nimbus", "lighting", "pad", "direct">>,
     <<"de", "nimbus", "lighting", "pad", "indirect">>,
     <<"de", "nimbus", "leggera">>,
     <<"de", "nimbus", "q", "classic", "multiwhite">>,
     <<"de", "nimbus", "q", "cubic", "multiwhite">>,
     <<"de", "nimbus", "q", "four", "multiwhite">>,
     <<"de", "nimbus", "zen">>,
     <<"com", "haefele", "tvlift">>,
     <<"com", "haefele", "motor">>,
     <<"com", "haefele", "lift", "wardrobe">>,
     <<"com", "haefele", "pushlock">>,
     <<"com", "haefele", "pushlock", "5s">>,
     <<"com", "haefele", "led", "rgb">>,
     <<"com", "haefele", "led", "rgb", "spot">>,
     <<"com", "haefele", "led", "multiwhite", "spot">>,
     <<"com", "haefele", "led", "multiwhite", "2200K">>,
     <<"com", "haefele", "led", "multiwhite", "2700K">>,
     <<"com", "haefele", "led", "multiwhite", "2wire", "monochrome", "spot">>,
     <<"com", "haefele", "led", "multiwhite", "2wire", "monochrome", "stripe">>,
     <<"com", "haefele", "led", "multiwhite", "2wire", "mw", "spot">>,
     <<"com", "haefele", "led", "multiwhite", "2wire", "mw", "stripe">>,
     <<"com", "haefele", "led", "white">>,
     <<"com", "haefele", "led", "white", "strip">>,
     <<"com", "haefele", "socket">>,
     <<"com", "haefele", "motion", "sensor">>,
     <<"com", "haefele", "furniture", "sensor", "mains">>,
     <<"com", "haefele", "furniture", "sensor", "battery">>,
     <<"com", "haefele", "wallcontroller", "actuator">>,
     <<"com", "haefele", "q", "dev", "multiwhite">>,
     <<"com", "haefele", "q", "dev", "monochrome">>,
     <<"com", "generic", "led", "multiwhite">>,
     <<"com", "generic", "led", "white">>,
     <<"com", "generic", "led", "rgb">>,
     <<"com", "generic", "level">>,
     <<"com", "nordic", "devkit", "level">>}

\* type strings of the API that are no value of DeviceType
UnknownTypeValues ==
    {<<"com", "haefele", "switch">>, <<"com", "haefele", "led">>}

\* str.startswith, on segments
StartsWith(value, prefix) ==
    /\ Len(prefix) <= Len(value)
    /\ SubSeq(value, 1, Len(prefix)) = prefix

\* any(self.value.startswith(prefix) for prefix in [...])
StartsWithAny(value, prefixes) == \E prefix \in prefixes : StartsWith(value, prefix)

TypeIsLight(value) ==
    StartsWithAny(value, {<<"com", "haefele", "led">>, <<"com", "generic", "led">>,
                          <<"de", "nimbus">>})

TypeSupportsColorTemp(value) ==
    StartsWithAny(value, {<<"com", "haefele", "led", "multiwhite">>,
                          <<"de", "nimbus", "q">>,
                          <<"com", "haefele", "q", "dev", "multiwhite">>,
                          <<"com", "generic", "led", "multiwhite">>})

TypeSupportsHsl(value) ==
    StartsWithAny(value, {<<"com", "haefele", "led", "rgb">>,
                          <<"com", "generic", "led", "rgb">>})

TypeIsSocket(value) ==
    StartsWithAny(value, {<<"de", "ledvance", "socket">>,
                          <<"com", "haefele", "socket">>,
                          <<"de", "jung", "socket">>})

\* the four capability properties of a Device, each computed from _type at
\* the time it is read
CapabilityFlags(value) ==
    [known |-> TRUE,
     is_light |-> TypeIsLight(value),
     supports_color_temp |-> TypeSupportsColorTemp(value),
     supports_hsl |-> TypeSupportsHsl(value),
     is_socket |-> TypeIsSocket(value)]

\* no flags read yet
NoFlags ==
    [known |-> FALSE, is_light |-> FALSE, supports_color_temp |-> FALSE,
     supports_hsl |-> FALSE, is_socket |-> FALSE]

\* DeviceType.from_str: the member with that value, or a ValidationError
FromStrRaises(type_str) == type_str \notin DeviceTypeValues

DeviceStart ==
    /\ dv_pc = "none"
    /\ dv_type = <<>>
    /\ dv_built = NoFlags
    /\ dv_read = NoFlags
    /\ dv_stamp = 0

\* Device.__init__: _type is assigned once, from the type string
DeviceConstruct ==
    /\ dv_pc = "none"
    /\ \E type_str \in DeviceTypeValues \cup UnknownTypeValues :
        IF FromStrRaises(type_str)
        THEN /\ dv_pc' = "invalid"
             /\ UNCHANGED <<dv_type, dv_built>>
        ELSE /\ dv_pc' = "built"
             /\ dv_type' = type_str
             /\ dv_built' = CapabilityFlags(type_str)
    /\ UNCHANGED <<dv_read, dv_stamp>>
    /\ UNCHANGED <<dl_pc, dl_call, dl_response, dl_result>>
    /\ UNCHANGED not_dev_vars

\* Device.update_timestamp: only _last_updated is assigned
DeviceUpdateTimestamp ==
    /\ dv_pc = "built"
    /\ dv_stamp < MaxOps
    /\ dv_stamp' = dv_stamp + 1
    /\ UNCHANGED <<dv_pc, dv_type, dv_built, dv_read>>
    /\ UNCHANGED <<dl_pc, dl_call, dl_response, dl_result>>
    /\ UNCHANGED not_dev_vars

\* the properties is_light, supports_color_temp, supports_hsl and is_socket
\* are read
DeviceReadFlags ==
    /\ dv_pc = "built"
    /\ dv_read' = CapabilityFlags(dv_type)
    /\ UNCHANGED <<dv_pc, dv_type, dv_built, dv_stamp>>
    /\ UNCHANGED <<dl_pc, dl_call, dl_response, dl_result>>
    /\ UNCHANGED not_dev_vars

DeviceNext ==
    \/ DeviceConstruct
    \/ DeviceUpdateTimestamp
    \/ DeviceReadFlags

----------------------------------------------------------------------------
(* HafeleClient.get_devices and get_devices_for_network (api/client.py) *)

NetworkIds == {"net-a", "net-b"}

\* the type strings of the records: a light, a socket, and an unknown one
RecordTypes ==
    {<<"com", "haefele", "led", "rgb">>, <<"de", "ledvance", "socket">>,
     <<"com", "haefele", "switch">>}

\* one record of the response: its networkId, its type, and whether its
\* required fields are all there, one is missing, or one is null
DeviceRecords ==
    [network_id : NetworkIds, type : RecordTypes,
     fields : {"complete", "missing", "null"}]

NoDevice == [network_id |-> "none", type |-> <<>>]

\* Device.from_dict: a missing key (KeyError) becomes a ValidationError; a
\* null unicastAddress or elements raises a TypeError, which is not caught;
\* then __init__ raises the ValidationError of DeviceType.from_str
DeviceFromDict(record) ==
    IF record.fields = "missing" THEN [cls |-> "ValidationError", device |-> NoDevice]
    ELSE IF record.fields = "null" THEN [cls |-> "TypeError", device |-> NoDevice]
    ELSE IF FromStrRaises(record.type)
         THEN [cls |-> "ValidationError", device |-> NoDevice]
    ELSE [cls |-> "none",
          device |-> [network_id |-> record.network_id, type |-> record.type]]

\* a mutant of ParseDevices: a record that does not parse is left out
RECURSIVE ParseDevicesSkipping(_)
ParseDevicesSkipping(devices_data) ==
    IF devices_data = <<>> THEN [cls |-> "none", devices |-> <<>>]
    ELSE LET d == DeviceFromDict(Head(devices_data))
             rest == ParseDevicesSkipping(Tail(devices_data))
         IN  IF d.cls # "none" THEN rest
             ELSE [cls |-> "none", devices |-> <<d.device>> \o rest.devices]

\* [Device.from_dict(device) for device in devices_data]: the first record
\* that raises ends the comprehension, and no list is built
RECURSIVE ParseDevices(_)
ParseDevices(devices_data) ==
    IF devices_data = <<>> THEN [cls |-> "none", devices |-> <<>>]
    ELSE LET d == DeviceFromDict(Head(devices_data))
         IN  IF d.cls # "none" THEN [cls |-> d.cls, devices |-> <<>>]
             ELSE LET rest == ParseDevices(Tail(devices_data))
                  IN  IF rest.cls # "none" THEN rest
                      ELSE [cls |-> "none",
                            devices |-> <<d.device>> \o rest.devices]

\* the responses of GET /devices: an HTTP failure (_get raises a
\* HafeleAPIError), a list of records, or a single record
NoDeviceRecord == [network_id |-> "none", type |-> <<>>, fields |-> "complete"]

HttpFailure ==
    [http |-> "error", form |-> "list", data |-> NoDeviceRecord, records |-> <<>>]

ListResponses ==
    {[http |-> "ok", form |-> "list", data |-> NoDeviceRecord, records |-> records] :
        records \in UNION {[1..k -> DeviceRecords] : k \in 0..MaxListLen}}

DictResponses ==
    {[http |-> "ok", form |-> "dict", data |-> record, records |-> <<>>] :
        record \in DeviceRecords}

DevicesResponses == {HttpFailure} \cup ListResponses \cup DictResponses

\* `if isinstance(devices_data, dict): devices_data = [devices_data]`
DevicesData(response) ==
    IF response.form = "dict" THEN <<response.data>> ELSE response.records

\* get_devices
GetDevices(response) ==
    IF response.http = "error" THEN [cls |-> "HafeleAPIError", devices |-> <<>>]
    ELSE ParseDevices(DevicesData(response))

\* get_devices_for_network: the devices of get_devices whose network_id
\* equals the argument
GetDevicesForNetwork(response, network_id) ==
    LET r == GetDevices(response)
    IN  IF r.cls # "none" THEN r
        ELSE [cls |-> "none",
              devices |-> SelectSeq(r.devices,
                                    LAMBDA d : d.network_id = network_id)]

NoListingCall == [op |-> "none", network_id |-> "none"]

ListingStart ==
    /\ dl_pc = "idle"
    /\ dl_call = NoListingCall
    /\ dl_response = HttpFailure
    /\ dl_result = [cls |-> "none", devices |-> <<>>]

GetDevicesCall ==
    /\ dl_pc = "idle"
    /\ \E response \in DevicesResponses :
        /\ dl_response' = response
        /\ dl_result' = GetDevices(response)
    /\ dl_call' = [op |-> "get_devices", network_id |-> "none"]
    /\ dl_pc' = "done"
    /\ UNCHANGED <<dv_pc, dv_type, dv_built, dv_read, dv_stamp>>
    /\ UNCHANGED not_dev_vars

GetDevicesForNetworkCall ==
    /\ dl_pc = "idle"
    /\ \E response \in DevicesResponses, network_id \in NetworkIds :
        /\ dl_response' = response
        /\ dl_result' = GetDevicesForNetwork(response, network_id)
        /\ dl_call' = [op |-> "get_devices_for_network",
                       network_id |-> network_id]
    /\ dl_pc' = "done"
    /\ UNCHANGED <<dv_pc, dv_type, dv_built, dv_read, dv_stamp>>
    /\ UNCHANGED not_dev_vars

ListingNext ==
    \/ GetDevicesCall
    \/ GetDevicesForNetworkCall

----------------------------------------------------------------------------
(* Specifications *)

\* one request through the decorator, for every max_attempts up to the bound
\* and both sets of delays used in the repository
InitRetry ==
    /\ \E max \in 0..MaxAttemptsBound, cfg \in {DefaultRetryCfg, ClientRetryCfg} :
           RetryStart(max, cfg)
    /\ RateStart
    /\ CoordStart(FALSE)
    /\ ClientStart
    /\ ConvStart
    /\ NetStart
    /\ GroupStart
    /\ DeviceStart
    /\ ListingStart

SpecRetry == InitRetry /\ [][RetryNext]_vars

\* one request through the decorator as HafeleClient._request applies it,
\* with the scheduling the wrapper relies on: the wrapped call and
\* asyncio.sleep both return
InitRetryFair ==
    /\ \E max \in 0..MaxAttemptsBound : RetryStart(max, ClientRetryCfg)
    /\ RateStart
    /\ CoordStart(FALSE)
    /\ ClientStart
    /\ ConvStart
    /\ NetStart
    /\ GroupStart
    /\ DeviceStart
    /\ ListingStart

SpecRetryFair == InitRetryFair /\ [][RetryNext]_vars /\ WF_vars(RetryNext)

\* the module-level _rate_limiter and its callers
InitRate ==
    /\ RateStart
    /\ RetryStart(0, DefaultRetryCfg)
    /\ CoordStart(FALSE)
    /\ ClientStart
    /\ ConvStart
    /\ NetStart
    /\ GroupStart
    /\ DeviceStart
    /\ ListingStart

SpecRate == InitRate /\ [][RateNext]_vars

SpecStatus == InitRate /\ [][StatusNext]_vars

\* the event loop resumes a task whose lock future or sleep timer is done, and
\* time passes
SpecStatusFair ==
    /\ InitRate
    /\ [][StatusFairNext]_vars
    /\ WF_vars(ClockTick)
    /\ \A c \in Callers : WF_vars(LockGranted(c)) /\ WF_vars(SleepDone(c))

\* one device of the config entry, a socket or a light: its setup, its
\* coordinator and its entity
InitCoord ==
    /\ \E socket \in BOOLEAN : CoordStart(socket)
    /\ RetryStart(0, DefaultRetryCfg)
    /\ RateStart
    /\ ClientStart
    /\ ConvStart
    /\ NetStart
    /\ GroupStart
    /\ DeviceStart
    /\ ListingStart

SpecCoord == InitCoord /\ [][CoordNext]_vars

\* the operations of one HafeleClient on one Device, one call after another
InitClient ==
    /\ ClientStart
    /\ RetryStart(0, DefaultRetryCfg)
    /\ RateStart
    /\ CoordStart(FALSE)
    /\ ConvStart
    /\ NetStart
    /\ GroupStart
    /\ DeviceStart
    /\ ListingStart

SpecClient == InitClient /\ [][ClientNext]_vars

\* the conversions, called on their own
InitConv ==
    /\ ConvStart
    /\ NetStart
    /\ GroupStart
    /\ DeviceStart
    /\ ListingStart
    /\ RetryStart(0, DefaultRetryCfg)
    /\ RateStart
    /\ CoordStart(FALSE)
    /\ ClientStart

SpecConv == InitConv /\ [][ConvNext]_vars

\* one Network: parsed from a payload, then asked for its devices
InitNetwork ==
    /\ NetStart
    /\ GroupStart
    /\ DeviceStart
    /\ ListingStart
    /\ RetryStart(0, DefaultRetryCfg)
    /\ RateStart
    /\ CoordStart(FALSE)
    /\ ClientStart
    /\ ConvStart

SpecNetwork == InitNetwork /\ [][NetNext]_vars

\* one Group: built from a payload, given its member devices, and read
InitGroup ==
    /\ GroupStart
    /\ DeviceStart
    /\ ListingStart
    /\ RetryStart(0, DefaultRetryCfg)
    /\ RateStart
    /\ CoordStart(FALSE)
    /\ ClientStart
    /\ ConvStart
    /\ NetStart

SpecGroup == InitGroup /\ [][GroupNext]_vars

\* one Device: its construction, its timestamp updates and reads of its flags
InitDevice ==
    /\ GroupStart
    /\ DeviceStart
    /\ ListingStart
    /\ RetryStart(0, DefaultRetryCfg)
    /\ RateStart
    /\ CoordStart(FALSE)
    /\ ClientStart
    /\ ConvStart
    /\ NetStart

SpecDevice == InitDevice /\ [][DeviceNext]_vars

\* one call of get_devices or get_devices_for_network
InitListing ==
    /\ GroupStart
    /\ DeviceStart
    /\ ListingStart
    /\ RetryStart(0, DefaultRetryCfg)
    /\ RateStart
    /\ CoordStart(FALSE)
    /\ ClientStart
    /\ ConvStart
    /\ NetStart

SpecListing == InitListing /\ [][ListingNext]_vars

\* the poll cycle on its own: the steps of the setup, the cycle and the
\* entity; the subtasks a cycle spawned stay in flight (their end touches
\* nothing the cycle reads but the task fields, see SubtaskDone)
CycleNext ==
    \/ SetupInitialFetch
    \/ SetupInitialFetchDone
    \/ PollStart
    \/ PollAdmitted
    \/ PollFetchDone
    \/ PollCancelled
    \/ SwitchAdded
    \/ SwitchAdmitted
    \/ SwitchFetchDone
    \/ Unload
    \/ WallTick

\* with the scheduling the code relies on: the host's timer fires while the
\* coordinator has listeners, the rate limiter sleeps for a bounded time, and
\* every request ends by its timeout
SpecCycle ==
    /\ InitCoord
    /\ [][CycleNext]_vars
    /\ WF_vars(PollStart)
    /\ WF_vars(PollAdmitted)
    /\ WF_vars(PollFetchDone)

InitSubtask ==
    /\ CoordStart(FALSE)
    /\ RetryStart(0, DefaultRetryCfg)
    /\ RateStart
    /\ ClientStart
    /\ ConvStart
    /\ NetStart
    /\ GroupStart
    /\ DeviceStart
    /\ ListingStart

\* with the scheduling of SpecCycle, and every subtask ending: its requests
\* run inside hass.timeout.async_timeout(30) and async_timeout(60)
\* (coordinator.py lines 94 and 131)
SpecSubtask ==
    /\ InitSubtask
    /\ [][SubtaskNext]_vars
    /\ WF_vars(PollStart)
    /\ WF_vars(PollAdmitted)
    /\ WF_vars(PollFetchDone)
    /\ \A kind \in SubtaskKinds : WF_vars(SubtaskDone(kind))

----------------------------------------------------------------------------
(* Properties of retry_with_backoff, checked under SpecRetry *)

RetryDone == retry_pc \in {"returned", "raised"}

\* C1: when every invocation failed with a retryable error, the wrapper goes on
\* while attempts are left, and once it has ended it has invoked the wrapped
\* function exactly max_attempts times and raised the last invocation's error.
C1_ExhaustedRaisesLast ==
    (calls >= 1 /\ retryable_fails = calls) =>
        IF RetryDone
        THEN /\ retry_pc = "raised"
             /\ calls = max_attempts
             /\ retry_out = last_outcome
        ELSE calls < max_attempts

\* five 503 responses in a row under the default max_attempts = 5
C1_Witness ==
    /\ retry_pc = "raised"
    /\ max_attempts = 5
    /\ calls = 5
    /\ retryable_fails = 5
    /\ first_outcome = HafeleAPIError(503, "OTHER")
    /\ retry_out = HafeleAPIError(503, "OTHER")

\* a failure C2 calls non-retryable: a ValidationError, or a HafeleAPIError
\* whose HTTP status is outside RETRYABLE_STATUS_CODES
C2_NonRetryableAsClaimed(o) ==
    /\ o.kind = "error"
    /\ \/ o.cls = "ValidationError"
       \/ o.cls = "HafeleAPIError" /\ o.status \notin RETRYABLE_STATUS_CODES

\* C2 as stated: a ValidationError, or a HafeleAPIError whose status is outside
\* the retryable set, is raised after exactly one invocation and no sleep.
C2_Original ==
    (calls >= 1 /\ C2_NonRetryableAsClaimed(first_outcome)) =>
        /\ retry_pc = "raised"
        /\ retry_out = first_outcome
        /\ calls = 1
        /\ sleeps = 0

\* C2 as amended: the same, for a HafeleAPIError whose error_code is not
\* "TIMEOUT" (a TIMEOUT code is retried whatever the status).
C2_NonRetryableRaisedAtOnce ==
    (/\ calls >= 1
     /\ C2_NonRetryableAsClaimed(first_outcome)
     /\ first_outcome.code # "TIMEOUT") =>
        /\ retry_pc = "raised"
        /\ retry_out = first_outcome
        /\ calls = 1
        /\ sleeps = 0

\* a 401 raised at once although four more attempts were allowed
C2_Witness ==
    /\ max_attempts = 5
    /\ first_outcome = HafeleAPIError(401, "OTHER")
    /\ retry_pc = "raised"
    /\ retry_out = HafeleAPIError(401, "OTHER")
    /\ calls = 1
    /\ sleeps = 0

\* C3: when every invocation but the latest failed with a retryable error and
\* the latest returned, the wrapper returns that value (so after k failures it
\* has made k+1 invocations); and after k < max_attempts retryable failures the
\* wrapper has not given up, so invocation k+1 takes place.
C3_SuccessAfterRetries ==
    /\ (calls >= 1 /\ last_outcome.kind = "ok" /\ retryable_fails = calls - 1) =>
           /\ retry_pc = "returned"
           /\ retry_out = last_outcome
           /\ calls <= max_attempts
    /\ (retryable_fails = calls /\ calls < max_attempts) =>
           retry_pc \in {"call", "sleep"}

\* three failures, the first a 500, then a successful fourth invocation
C3_Witness ==
    /\ retry_pc = "returned"
    /\ first_outcome = HafeleAPIError(500, "OTHER")
    /\ retryable_fails = 3
    /\ calls = 4
    /\ retry_out = Returned("r1")

\* the un-jittered delay the claim gives for the n-th failed attempt
C28_ClaimedDelay(n) == Min(retry_cfg.base_delay * Pow2(n - 1), retry_cfg.max_delay)

\* C28: the sleep after the n-th failed attempt is
\* max(min(base_delay * 2^(n-1), max_delay) + jitter, 0.1) for a jitter within
\* the jitter range, so base_delay after the first failure, and never shorter
\* than 0.1 s or longer than max_delay + jitter_range.
C28_BackoffDelay ==
    retry_pc = "sleep" =>
        /\ \E j \in Jitters(retry_cfg) :
               total_delay = Max(C28_ClaimedDelay(attempt + 1) + j, 100)
        /\ total_delay >= 100
        /\ total_delay <= retry_cfg.max_delay + retry_cfg.jitter_range

\* C30: for max_attempts >= 1 a request invokes the wrapped call at least once
\* and at most max_attempts times, sleeps once between two invocations and
\* never after the last, and ends with a result or an error.
C30_BoundedAndTerminates ==
    /\ [](max_attempts >= 1 =>
            /\ calls <= max_attempts
            /\ sleeps <= calls
            /\ retry_pc = "sleep" => sleeps = calls /\ calls < max_attempts
            /\ retry_pc = "call" => sleeps = calls
            /\ RetryDone =>
                   /\ calls >= 1
                   /\ sleeps = calls - 1
                   /\ retry_out.kind \in {"ok", "error"})
    /\ (max_attempts >= 1 => <>RetryDone)

\* every attempt failed with a retryable error
C30_Witness ==
    /\ RetryDone
    /\ max_attempts >= 3
    /\ calls = max_attempts
    /\ sleeps = max_attempts - 1
    /\ retry_out.kind = "error"

\* a failure that carries neither a TIMEOUT code nor an HTTP status: the error
\* _request builds for a connection-level failure (status_code None), a
\* ValidationError, or an exception of any other class
C31_NoCodeNoStatus(o) ==
    /\ o.kind = "error"
    /\ o.code # "TIMEOUT"
    /\ o.status = NoStatus

\* C31: a failure that carries neither a TIMEOUT code nor an HTTP status is
\* never retried: the invocation that met it is the wrapper's last and its
\* error is the one raised, so when the first invocation meets it the wrapper
\* has invoked the call exactly once and never slept.
C31_UnclassifiedNotRetried ==
    /\ (calls >= 1 /\ C31_NoCodeNoStatus(last_outcome)) =>
           /\ retry_pc = "raised"
           /\ retry_out = last_outcome
    /\ (calls >= 1 /\ C31_NoCodeNoStatus(first_outcome)) =>
           /\ calls = 1
           /\ sleeps = 0

\* a connection-level error raised at once although four more attempts were
\* allowed
C31_Witness ==
    /\ max_attempts = 5
    /\ first_outcome = HafeleAPIError(NoStatus, "NONE")
    /\ retry_pc = "raised"
    /\ retry_out = HafeleAPIError(NoStatus, "NONE")
    /\ calls = 1

----------------------------------------------------------------------------
(* Properties of RateLimiter.acquire, checked under SpecRate *)

\* the callers inside the lock of key k (acquire suspends there only in sleep)
InsideLock(k) == {c \in Callers : rl[c].pc = "sleeping" /\ rl[c].key = k}

\* C4: the timestamp recorded for a key is at least the caller's min_interval
\* after the timestamp it replaces, and at most one caller at a time is
\* inside the lock of a key.
C4_SpacingPerKey ==
    /\ last_record.has_prev =>
           last_record.stamp - last_record.prev >= last_record.min_interval
    /\ \A k \in Keys : Cardinality(InsideLock(k)) <= 1

\* a caller slept the full three ticks after its predecessor while another
\* caller of the same key was waiting for the lock
C4_Witness ==
    /\ last_record.has_prev
    /\ last_record.min_interval = 3
    /\ last_record.stamp = last_record.prev + 3
    /\ \E c \in Callers : rl[c].pc = "waiting" /\ rl[c].key = last_record.key

\* C5: a caller waits for a lock only behind callers of its own key (the lock
\* it waits for is held, or queued for, by callers of the same key only), and
\* the time a caller sleeps is fixed by the timestamp of its own key alone.
C5_NoCrossKeyBlocking ==
    \A c \in Callers :
        /\ rl[c].pc = "waiting" =>
               LET lock == locks[LockIndex(rl[c].key)]
               IN  /\ \E i \in 1..Len(lock.waiters) : lock.waiters[i] = c
                   /\ \A i \in 1..Len(lock.waiters) :
                          rl[lock.waiters[i]].key = rl[c].key
                   /\ lock.locked => InsideLock(rl[c].key) # {}
        /\ rl[c].pc = "sleeping" =>
               /\ rl[c].key \in DOMAIN last_call_time
               /\ rl[c].wake_at = last_call_time[rl[c].key] + rl[c].min_interval

\* two callers are inside the locks of two different keys at the same time
C5_Witness ==
    \E c, d \in Callers :
        /\ rl[c].pc = "sleeping"
        /\ rl[d].pc = "sleeping"
        /\ rl[c].key # rl[d].key

----------------------------------------------------------------------------
(* Properties of the rate-limited get_device_status, checked under SpecStatus *)

\* C6 as stated: a status fetch is never delayed because of a fetch for another
\* device, so a caller sleeps only behind a timestamp set for its own device.
C6_Original ==
    \A c \in Callers :
        rl[c].pc = "sleeping" => last_device[rl[c].key] = rl[c].device

\* C6 as amended: two status fetches are throttled under the same key exactly
\* when they go through the same client, whatever their devices, and the
\* two-tick (one second) spacing holds between any two consecutive fetches of
\* a client.
C6_SpacingPerClient ==
    /\ \A c, d \in Callers :
           (rl[c].pc # "idle" /\ rl[d].pc # "idle") =>
               ((rl[c].client = rl[d].client) <=> (rl[c].key = rl[d].key))
    /\ \A c \in Callers :
           rl[c].pc = "sleeping" =>
               rl[c].wake_at = last_call_time[rl[c].key] + StatusMinInterval
    /\ last_record.has_prev =>
           last_record.stamp - last_record.prev >= StatusMinInterval

\* a fetch for dev2 sleeps behind the timestamp of a fetch for dev1 made
\* through the same client
C6_Witness ==
    \E c \in Callers :
        /\ rl[c].pc = "sleeping"
        /\ rl[c].device = "dev2"
        /\ rl[c].client = "client1"
        /\ last_device[rl[c].key] = "dev1"

\* ---------------------------------------------------------------------------
\* Properties of acquire under cancellation, checked under SpecStatusFair
\* ---------------------------------------------------------------------------

\* caller c is inside acquire: queued for the lock, or asleep inside it
InAcquire(c) == rl[c].pc \in {"waiting", "sleeping"}

\* this step cancels caller c: it leaves acquire without reaching the wrapped
\* call
C33_Cancelled(c) ==
    /\ InAcquire(c)
    /\ rl'[c].pc = "idle"
    /\ last_cancel' = [pc |-> rl[c].pc, key |-> rl[c].key]

\* the lock of each key is held exactly while a caller sleeps inside it
C33_LockHeldOnlyInside ==
    \A k \in DOMAIN locks : locks[k].locked <=> InsideLock(k) # {}

\* C33: a caller cancelled while it waits for the lock, or while it sleeps
\* inside it, holds no lock and no queue position afterwards and records no
\* timestamp; and every caller inside acquire eventually leaves it, which for
\* a caller that is never cancelled means that its acquire returns.
C33_CancelSafeAndLive ==
    /\ []C33_LockHeldOnlyInside
    /\ [][\A c \in Callers :
             C33_Cancelled(c) =>
                 LET lock == locks'[LockIndex(rl[c].key)]
                 IN  /\ last_call_time' = last_call_time
                     /\ rl[c].pc = "sleeping" => ~lock.locked
                     /\ \A i \in 1..Len(lock.waiters) : lock.waiters[i] # c]_vars
    /\ \A c \in Callers : InAcquire(c) ~> ~InAcquire(c)

\* a caller was cancelled in its sleep inside the lock of a key, no
\* timestamp has been recorded since its predecessor's, and another caller of
\* the key has since taken the lock and sleeps inside it
C33_Witness ==
    \E c, d \in Callers :
        /\ c # d
        /\ last_cancel.pc = "sleeping"
        /\ rl[c].pc = "idle"
        /\ rl[d].pc = "sleeping"
        /\ rl[d].key = last_cancel.key
        /\ ~last_record.has_prev

\* ---------------------------------------------------------------------------
\* Properties of the coordinator
\* ---------------------------------------------------------------------------

\* C7: for each of the two subtask kinds at most one instance is in flight at
\* any time, and while one is in flight no step starts a second one or
\* restarts the kind's interval timer (nothing is queued), whatever the
\* elapsed time.
C7_OneSubtaskPerKind ==
    /\ [](\A k \in SubtaskKinds :
             /\ running[k] <= 1
             /\ (running[k] = 1) <=> check_task[k])
    /\ [][\A k \in SubtaskKinds :
             check_task[k] =>
                 /\ running'[k] <= running[k]
                 /\ last_check'[k] = last_check[k]]_vars

\* a cycle has just ended successfully at a time when the interval of a kind
\* had elapsed while its subtask was still running, and spawned none of it
C7_Witness ==
    /\ coord_pc = "idle"
    /\ cycle.path = "success"
    /\ last_updated = wall
    /\ wall > 0
    /\ running["details"] = 1
    /\ wall - last_check["details"] > CheckInterval("details")
    /\ "details" \notin cycle.spawned

\* the callers of get_device_status whose request for the device is in flight
StatusFetchesInFlight ==
    (IF coord_pc = "fetching" THEN {"poll"} ELSE {})
        \cup (IF setup_pc = "initial_fetch" THEN {"setup"} ELSE {})
        \cup (IF switch_pc = "fetching" THEN {"switch"} ELSE {})

\* C8: at no time are two status fetches for the device in flight, counting
\* the poll cycle, the initial fetch of the setup and the fetch of the switch
\* entity when it is added.
C8_OneStatusFetch == Cardinality(StatusFetchesInFlight) <= 1

\* C9: every poll cycle that runs to completion (success, API error or any
\* other error) sets the last_updated of the coordinator's device to the
\* current time within that cycle; a cancelled cycle does not.  The first
\* version of the coordinator updates it at least once on the same paths.
C9_TimestampEveryCycle ==
    /\ [](/\ cycle.path \in {"success", "api_error", "exception"} =>
              cycle.updates = 1
          /\ cycle.path = "cancelled" => cycle.updates = 0
          /\ \A o \in StatusOutcomes \cup {CancelledError} :
                 LegacyTimestampUpdates(o) >= 1 <=> CyclePath(o) # "cancelled")
    /\ [][(coord_pc = "fetching" /\ coord_pc' = "idle"
               /\ cycle'.path # "cancelled")
             => (last_updated' = wall' /\ last_updated' >= last_updated)]_vars

\* a cycle has run each of the three paths to completion at a time later than
\* the previous update; here the one that failed with an unexpected error
C9_Witness ==
    /\ coord_pc = "idle"
    /\ cycle.path = "exception"
    /\ cycle.updates = 1
    /\ last_updated = wall
    /\ wall > 0

\* C10: an error raised inside a subtask (API error, validation error,
\* timeout, unexpected exception) never leaves the subtask: it is logged, the
\* subtask ends and clears its task field, and the step changes nothing of
\* the poll cycle (its position, its result, the coordinator's data and
\* success flag, the setup); a cycle that spawned subtasks returned its
\* snapshot.
C10_SubtaskErrorsAbsorbed ==
    /\ [](/\ ~sub_errors.escaped
          /\ cycle.spawned # {} => cycle.path = "success")
    /\ [][\A k \in SubtaskKinds :
             running'[k] < running[k] =>
                 /\ ~check_task'[k]
                 /\ UNCHANGED <<coord_pc, setup_pc, cycle, data,
                                last_update_success, last_check>>]_vars

\* a subtask raised an error that was logged, and a cycle that ended after it
\* has returned a snapshot: a subtask of each kind is running, so every
\* subtask that ended did so before the latest spawn, which is not later than
\* the end of the latest cycle
C10_Witness ==
    /\ sub_errors.logged
    /\ \A k \in SubtaskKinds : running[k] = 1
    /\ coord_pc = "idle"
    /\ cycle.path = "success"
    /\ last_update_success

\* C11 as claimed: a 401 of the primary status fetch fails the cycle and
\* requests a reauthentication flow, and so does a 401 of a fetch made by a
\* subtask; the polling interval is left unchanged.
C11_Original ==
    /\ [](cycle.unauthorized =>
              (cycle.reauth /\ cycle.path = "api_error" /\ ~last_update_success))
    /\ [](sub_errors.unauthorized => sub_errors.reauth)
    /\ [][update_interval' = update_interval]_vars

\* C11, amended: a 401 of the primary status fetch fails the cycle and requests
\* a reauthentication flow; a 401 of a fetch made by a subtask is logged and
\* absorbed there, without a reauthentication request; the polling interval is
\* left unchanged in both cases.
C11_PrimaryUnauthorizedReauth ==
    /\ [](cycle.unauthorized =>
              (cycle.reauth /\ cycle.path = "api_error" /\ ~last_update_success))
    /\ [](sub_errors.unauthorized => (sub_errors.logged /\ ~sub_errors.reauth))
    /\ [][update_interval' = update_interval]_vars

\* a cycle has failed with a 401 and requested the reauthentication, and a
\* subtask has met a 401 as well
C11_Witness ==
    /\ coord_pc = "idle"
    /\ cycle.unauthorized
    /\ cycle.reauth
    /\ ~last_update_success
    /\ sub_errors.unauthorized

C13_NoWriteAfterUnload ==
    [][/\ (cycle' # cycle /\ cycle'.path = "cancelled") =>
              (data' = data /\ last_updated' = last_updated)
       /\ unloaded => (device' = device /\ added_entities' = added_entities)]_vars

\* C19: when the listing of a discovery subtask holds a device unknown to the
\* setup, the subtask passes that device's entities to the host (its light or
\* switch and the two diagnostic entities), each unique id once.
C19_NewDeviceEntities ==
    new_seen => \E d \in {"dev2"} : EntityIds(d) \subseteq added_entities

\* C18: every snapshot returned by a successful poll cycle holds a "power"
\* entry, whatever validated status response it was built from, and holds
\* lightness entries only when the device is a light.
C18_SnapshotHasPower ==
    [][(coord_pc = "fetching" /\ coord_pc' = "idle" /\ cycle'.path = "success")
          => /\ "power" \in data'
             /\ is_socket => data' \cap {"lightness", "lastLightness"} = {}]_vars

\* C20: the coordinator is the only writer of the device's last_updated and of
\* coordinator.data: they change only in a step of the poll cycle or of one of
\* the coordinator's subtasks.
C20_CoordinatorSoleWriter ==
    [][(data' # data \/ last_updated' # last_updated)
          => \/ coord_pc = "fetching" /\ coord_pc' = "idle"
             \/ \E k \in SubtaskKinds : running'[k] < running[k]]_vars

\* C27: every poll cycle that ends, successful or failed, spawns exactly one
\* subtask of each kind whose interval has elapsed and whose task field is
\* empty, and none of a kind that is not due; on the first cycle both kinds
\* are due.
C27_DueSubtaskSpawnedEveryCycle ==
    /\ [][(/\ coord_pc = "fetching"
           /\ coord_pc' = "idle"
           /\ cycle'.path \in {"success", "api_error", "exception"}) =>
              \A k \in SubtaskKinds :
                  IF MaySpawn(k)
                  THEN /\ k \in cycle'.spawned
                       /\ running'[k] = running[k] + 1
                       /\ check_task'[k]
                  ELSE /\ k \notin cycle'.spawned
                       /\ running'[k] = running[k]]_vars
    /\ [][(cycle.path = "none" /\ coord_pc = "fetching") =>
              \A k \in SubtaskKinds : MaySpawn(k)]_vars

\* C34: the last-check timestamp of a subtask kind changes only in the step
\* that spawns a subtask of the kind, which sets it to the time of the spawn;
\* and a spawn takes place only when more than the kind's interval has passed
\* since that timestamp, so since the previous spawn. A cycle that spawns
\* nothing and the end of a subtask leave the timestamp alone.
C34_SpawnsSpacedByInterval ==
    [][\A k \in SubtaskKinds :
          /\ running'[k] > running[k] =>
                 /\ coord_pc = "fetching"
                 /\ wall - last_check[k] > CheckInterval(k)
                 /\ last_check'[k] = wall
          /\ running'[k] <= running[k] => last_check'[k] = last_check[k]]_vars

\* a second device-detail subtask is in flight: the first was spawned in the
\* first minute, ended and swapped the device, and the second was spawned by
\* the cycle that ended last, two minutes after the start
C34_Witness ==
    /\ device.obj = 1
    /\ "details" \in cycle.spawned
    /\ running["details"] = 1
    /\ last_check["details"] = 2
    /\ wall = 2

\* C35: the task field of a kind is set exactly while a subtask of the kind
\* is in flight, so every end of a subtask (a result, an absorbed error, a
\* timeout, a cancellation) clears it; every subtask that was spawned ends;
\* and a successful cycle spawns a subtask of every kind whose field is clear
\* and whose interval has elapsed.
C35_MarkerNeverStuck ==
    /\ [](\A k \in SubtaskKinds : check_task[k] <=> running[k] > 0)
    /\ [][\A k \in SubtaskKinds :
             running'[k] < running[k] => ~check_task'[k]]_vars
    /\ \A k \in SubtaskKinds : check_task[k] ~> ~check_task[k]
    /\ [][(/\ coord_pc = "fetching"
           /\ coord_pc' = "idle"
           /\ cycle'.path = "success") =>
              \A k \in SubtaskKinds :
                  (~check_task[k] /\ wall - last_check[k] > CheckInterval(k)) =>
                      /\ running'[k] = 1
                      /\ check_task'[k]
                      /\ k \in cycle'.spawned]_vars

\* the first device-detail subtask ended in an error that was absorbed (the
\* discovery subtask spawned with it is still in flight), and a later cycle
\* has spawned the second
C35_Witness ==
    /\ sub_errors.logged
    /\ running["discovery"] = 1
    /\ last_check["discovery"] = 0
    /\ running["details"] = 1
    /\ last_check["details"] = 2

\* the freshness limit of the entities' available property: 120 seconds
FreshnessLimit == 2

\* the freshness check of HaefeleConnectMeshLight.available and
\* HaefeleConnectMeshSwitch.available, on the Device object the entity holds
C36_EntityFresh == wall - setup_last_updated < FreshnessLimit

\* C36: every poll cycle that ends refreshes last_updated on the Device object
\* of the setup, also after a device-detail subtask has swapped the
\* coordinator's device; so whenever the coordinator's device was refreshed
\* less than 120 seconds ago, the entities' freshness check passes.
C36_SwapKeepsEntityFresh ==
    /\ [][(/\ coord_pc = "fetching"
           /\ coord_pc' = "idle"
           /\ cycle'.path \in {"success", "api_error", "exception"}) =>
              setup_last_updated' = wall]_vars
    /\ [](wall - last_updated < FreshnessLimit => C36_EntityFresh)

\* C37: a poll cycle requests a reauthentication flow if and only if its
\* status fetch failed with HTTP status 401, whatever the device id, the URL
\* or the text of the error.
C37_ReauthIffUnauthorized == cycle.reauth <=> cycle.unauthorized

\* ---------------------------------------------------------------------------
\* Properties of the client's operations
\* ---------------------------------------------------------------------------

\* the preconditions as the claim lists them: the capability of the device
\* and the ranges of the arguments
C14_PreconditionFails ==
    \/ /\ cl_op.op = "set_lightness"
       /\ ~IsLight(cl_op.dtype) \/ cl_op.lightness \notin 0..10
    \/ /\ cl_op.op = "set_temperature"
       /\ ~SupportsColorTemp(cl_op.dtype) \/ cl_op.temperature \notin 0..65535
    \/ /\ cl_op.op = "set_hsl"
       /\ \/ ~SupportsHsl(cl_op.dtype)
          \/ cl_op.hue \notin 0..360
          \/ cl_op.saturation \notin 0..10
          \/ cl_op.lightness \notin 0..10

\* C14: a command that fails its precondition (set_lightness on a device that
\* is no light, set_temperature without supports_color_temp, set_hsl without
\* supports_hsl, an argument out of range) raises before any HTTP request is
\* dispatched and leaves the device's last_updated as it was.
C14_PreconditionsBeforeDispatch ==
    C14_PreconditionFails =>
        /\ cl_pc \in {"done", "idle"}
        /\ http_calls = 0
        /\ cl_body = "none"
        /\ cl_result.kind = "error"
        /\ cl_result.cls \in {"ValidationError", "ValueError", "TypeError"}
        /\ dev_last_updated = dev_before

\* set_temperature was called, in range, on a device without
\* supports_color_temp, and raised the capability error without a request
C14_Witness ==
    /\ cl_pc = "done"
    /\ cl_op.op = "set_temperature"
    /\ ~SupportsColorTemp(cl_op.dtype)
    /\ cl_op.temperature \in 0..65535
    /\ cl_result.cls = "ValidationError"
    /\ http_calls = 0

\* C15: for each of the four commands, a 2xx response whose body has no
\* explicit success indicator is a failure: the operation raises and the
\* device's last_updated is not updated.
C15_NoSuccessIndicatorFails ==
    (/\ cl_pc = "done"
     /\ cl_op.op \in Commands
     /\ cl_body \in {"success-false", "no-success-key"})
        => (cl_result.kind = "error" /\ dev_last_updated = dev_before)

\* C16: a command updates the device's last_updated if and only if it
\* succeeded: a command that returns has updated it, and one that failed its
\* precondition, got an HTTP error after the retries or got an unsuccessful
\* response body has left it unchanged.
C16_TimestampIffSuccess ==
    (cl_pc = "done" /\ cl_op.op \in Commands) =>
        /\ cl_result.kind = "ok" => dev_last_updated = cl_now
        /\ (\/ C14_PreconditionFails
            \/ cl_body = "none"
            \/ cl_body \in {"success-false", "no-success-key"})
               => dev_last_updated = dev_before

\* C17: get_device_status returns only for a body that is a mapping with a
\* "state" key and raises the validation error for any other body; the
\* request is not repeated, and a poll cycle that receives the error fails.
C17_StatusValidatedOrShapeError ==
    (/\ cl_pc = "done"
     /\ cl_op.op = "get_device_status"
     /\ cl_body # "none") =>
        /\ cl_result.kind = "ok" <=> cl_body = "mapping-with-state"
        /\ cl_body # "mapping-with-state" => cl_result = ValidationError
        /\ http_calls = cl_attempt + 1
        /\ cl_result.kind = "error" => UpdateFailed(CyclePath(cl_result))

\* the commands that check the "success" entry of the response body
C32_CheckedCommands == {"set_lightness", "set_temperature", "set_hsl"}

\* C32: when the 2xx response of set_lightness, set_temperature or set_hsl
\* reports no success, the command raises a HafeleAPIError and sends no further
\* PUT: the PUTs sent are the retried HTTP failures and the one that got the
\* 2xx response, so exactly one when no HTTP failure came before it.
C32_BodyFailureNotRetried ==
    (/\ cl_op.op \in C32_CheckedCommands
     /\ cl_body \in {"success-false", "no-success-key"}) =>
        /\ cl_pc \in {"done", "idle"}
        /\ cl_result.kind = "error"
        /\ cl_result.cls = "HafeleAPIError"
        /\ http_calls = cl_attempt + 1
        /\ cl_attempt = 0 => http_calls = 1

\* set_lightness: one PUT, a 2xx response, {"success": false}
C32_Witness ==
    /\ cl_pc = "done"
    /\ cl_op.op = "set_lightness"
    /\ cl_body = "success-false"
    /\ cl_attempt = 0
    /\ http_calls = 1
    /\ cl_result = HafeleAPIError(NoStatus, "OTHER")

\* C39: set_hsl called on an HSL-capable device with hue in 0..360,
\* saturation in 0..1 and no lightness argument sends its PUT to /devices/hsl
\* (one PUT when the first request gets its response) and, when the response
\* reports success, returns with the device's last_updated set.
C39_HslWithoutLightness ==
    (/\ cl_pc = "done"
     /\ cl_op.op = "set_hsl"
     /\ SupportsHsl(cl_op.dtype)
     /\ 0 <= cl_op.hue /\ cl_op.hue <= 360
     /\ 0 <= cl_op.saturation /\ cl_op.saturation <= 10
     /\ cl_op.lightness = NoneArg) =>
        /\ http_calls = cl_attempt + 1
        /\ cl_body = "success-true" =>
            /\ cl_result.kind = "ok"
            /\ dev_last_updated = cl_now

----------------------------------------------------------------------------
(* Properties of the scale conversions, checked under SpecConv *)

\* the latest call is fn(arg) with arg inside fn's domain
ConvCalled(fn) ==
    /\ conv_pc \in {"called", "inverted"}
    /\ conv_fn = fn
    /\ InScale(SourceScale(fn), conv_in)

\* the latest call converted back the result of inner(arg), arg inside
\* inner's domain
ConvRoundTrip(inner) ==
    /\ conv_pc = "inverted"
    /\ conv_from.fn = inner
    /\ InScale(SourceScale(inner), conv_from.arg)

\* C21: for every brightness b in 0..255, brightness_to_mesh(b) lies in
\* 0..65535, so it is a valid argument of mesh_to_brightness, and
\* mesh_to_brightness(brightness_to_mesh(b)) differs from b by at most 1.
C21_BrightnessRoundTrip ==
    /\ ConvCalled("brightness_to_mesh") =>
           /\ conv_out.kind = "ok"
           /\ InScale("mesh", conv_out)
    /\ ConvRoundTrip("brightness_to_mesh") =>
           /\ InScale("mesh", conv_in)
           /\ conv_out.kind = "ok"
           /\ conv_out.den = 1
           /\ conv_out.num - conv_from.arg.num \in {0 - 1, 0, 1}

\* the round trip of the brightest value
C21_Witness ==
    /\ ConvRoundTrip("brightness_to_mesh")
    /\ conv_from.arg = Num(MaxBrightness, 1)
    /\ conv_in = Num(MaxMesh, 1)
    /\ conv_out = ConvOk(MaxBrightness, 1)

\* C22: every conversion raises for every argument outside its domain, and
\* for every argument inside it returns a value inside the target scale.
C22_RangeCheckedNoClamp ==
    (conv_pc \in {"called", "inverted"} /\ conv_fn \in Conversions) =>
        IF InScale(SourceScale(conv_fn), conv_in)
        THEN /\ conv_out.kind = "ok"
             /\ InScale(TargetScale(conv_fn), conv_out)
        ELSE conv_out = ConvValueError

\* mireds_to_mesh raises for 501 mireds, one above its domain
C22_Witness ==
    /\ conv_pc = "called"
    /\ conv_fn = "mireds_to_mesh"
    /\ conv_in = Num(MaxMireds + 1, 1)
    /\ conv_out = ConvValueError

\* the result of mesh_to_brightness is the integer nearest to m/65535*255
C23_NearestBrightness ==
    ConvCalled("mesh_to_brightness") =>
        /\ conv_out.kind = "ok"
        /\ conv_out.den = 1
        /\ 2 * (conv_out.num * 65535 * conv_in.den - conv_in.num * 255)
               <= 65535 * conv_in.den
        /\ 2 * (conv_in.num * 255 - conv_out.num * 65535 * conv_in.den)
               <= 65535 * conv_in.den

\* the light entity reads the snapshot of {"state": {"power": true,
\* "lightness": 32768}}
C23_Scenario ==
    /\ conv_pc = "called"
    /\ conv_fn = "light.brightness"
    /\ conv_power
    /\ conv_in = Num(32768, 1)

\* C23 as claimed: mesh_to_brightness(m) is m/65535*255 rounded to the
\* nearest integer for every m in 0..65535, and in the scenario the
\* brightness reported is 127.
C23_Original ==
    /\ C23_NearestBrightness
    /\ C23_Scenario => conv_out = ConvOk(127, 1)

\* C23, amended: mesh_to_brightness(m) is m/65535*255 rounded to the nearest
\* integer for every m in 0..65535, and in the scenario the brightness
\* reported is 128, the integer nearest to 32768/65535*255 = 127.502.
C23_BrightnessOfStatus ==
    /\ C23_NearestBrightness
    /\ C23_Scenario => conv_out = ConvOk(128, 1)

C23_Witness ==
    /\ C23_Scenario
    /\ conv_out.kind = "ok"

\* C29: for every mireds value r in 153..500, mireds_to_mesh(r) lies in
\* 0..65535 and mesh_to_mireds(mireds_to_mesh(r)) = r; the ends of the two
\* scales are mapped onto each other.
C29_MiredsRoundTrip ==
    /\ ConvCalled("mireds_to_mesh") =>
           /\ conv_out.kind = "ok"
           /\ InScale("mesh", conv_out)
           /\ conv_in = Num(MinMireds, 1) => conv_out = ConvOk(0, 1)
           /\ conv_in = Num(MaxMireds, 1) => conv_out = ConvOk(MaxMesh, 1)
    /\ ConvCalled("mesh_to_mireds") =>
           /\ conv_in = Num(0, 1) => conv_out = ConvOk(MinMireds, 1)
           /\ conv_in = Num(MaxMesh, 1) => conv_out = ConvOk(MaxMireds, 1)
    /\ ConvRoundTrip("mireds_to_mesh") =>
           conv_out = ConvOk(conv_from.arg.num, 1)

\* the round trip of a value inside the scale
C29_Witness ==
    /\ ConvRoundTrip("mireds_to_mesh")
    /\ conv_from.arg = Num(370, 1)
    /\ conv_out = ConvOk(370, 1)

----------------------------------------------------------------------------
(* Properties of Network, checked under SpecNetwork *)

\* C24: the first get_devices call stores exactly the supplied devices whose
\* network_id is the network's id; every later call, whatever list it is
\* given, returns that cache unchanged and leaves last_updated alone.
C24_CacheFilledOnce ==
    net_now >= 1 =>
        /\ net_cached
        /\ net_devices = OfNetwork(net_first)
        /\ net_returned = net_devices
        /\ net_now >= 2 =>
               /\ net_before.cached
               /\ net_devices = net_before.devices
               /\ net_last_updated = net_before.last_updated

\* a second call with other devices, after a first call that cached nothing
C24_Witness ==
    /\ net_now = 2
    /\ OfNetwork(net_first) = <<>>
    /\ OfNetwork(net_supplied) # <<>>
    /\ net_returned = <<>>
    /\ net_last_updated = 1

\* C25: with valid required fields, a `network` entry that is absent or
\* malformed in any way never fails Network.from_dict: the parse returns a
\* Network whose mesh_config is None.
C25_MalformedMeshConfigIsNone ==
    (/\ net_pc # "unparsed"
     /\ net_data.top = "valid"
     /\ net_data.sub # "valid") =>
        /\ net_pc = "parsed"
        /\ net_error = "none"
        /\ net_mesh_config = "None"

----------------------------------------------------------------------------
(* Properties of Group, checked under SpecGroup *)

\* every member device satisfies the predicate read last
EveryMemberSatisfies ==
    \A i \in 1..Len(grp_devices) :
        DevicePredicate(grp_pred, grp_devices[i]) = "True"

\* C26: each capability predicate of a Group returns a truth value, true
\* exactly when every member device satisfies the same predicate, and so
\* true for a group without member devices.
C26_GroupPredicateIsAll ==
    grp_pc = "read" =>
        /\ grp_result \in {"True", "False"}
        /\ grp_result = "True" <=> EveryMemberSatisfies


----------------------------------------------------------------------------
(* Properties of Device, checked under SpecDevice *)

\* C38: for every device type of the vocabulary the capability flags of a
\* Device are consistent: a device that supports colour temperature or HSL
\* is a light, no device is both a light and a socket, and the flags read at
\* any time are the flags the device had when it was constructed
C38_FlagsConsistent ==
    dv_pc = "built" =>
        LET f == CapabilityFlags(dv_type)
        IN  /\ (f.supports_color_temp \/ f.supports_hsl) => f.is_light
            /\ ~(f.is_light /\ f.is_socket)
            /\ dv_read.known => dv_read = dv_built

----------------------------------------------------------------------------
(* Properties of the device listing, checked under SpecListing *)

\* the claim's two ways in which a record fails to parse
C40_MissingField(record) == record.fields = "missing"
C40_UnknownType(record) ==
    record.fields = "complete" /\ record.type \notin DeviceTypeValues
C40_Parses(record) ==
    record.fields = "complete" /\ record.type \in DeviceTypeValues

\* the list `result` holds, in the order of the response, exactly the devices
\* of the records at the positions `idx`
C40_ExactlyThose(result, records, idx) ==
    /\ Len(result) = Cardinality(idx)
    /\ \A k \in 1..Len(result) :
        \E i \in idx :
            /\ Cardinality({j \in idx : j < i}) = k - 1
            /\ result[k] = [network_id |-> records[i].network_id,
                            type |-> records[i].type]

====
